---- MODULE Spec2Model ----
(***************************************************************************)
(* Flight-search engine: the Sky-Scraper provider (search_flights), its    *)
(* offer pipeline (normalize, filter, dedupe, sort, limit, meta), the      *)
(* price-history reconciliation, the response / curve caches, and the      *)
(* FlightSearchView in front of it.                                        *)
(*                                                                         *)
(* Conventions                                                             *)
(*   - Python None for a string is NoneStr; a string is falsy when it is   *)
(*     NoneStr or "".                                                      *)
(*   - Python None for a number or a list is the empty sequence <<>>, a    *)
(*     present value v is <<v>>.                                           *)
(*   - Calendar dates are day numbers 1, 2, ... (the order of the ISO      *)
(*     strings is the order of the numbers); 0 is a missing date.          *)
(*   - Clock times of day are sequences of one-character strings.          *)
(*   - The wall clock counts ticks, TicksPerSecond of them in a second.    *)
(***************************************************************************)
EXTENDS Integers, Sequences, FiniteSets, TLC

VARIABLES
    clock,        \* time.time(), in ticks
    settings,     \* django settings: SKY_SCRAPER_API_KEY set?, FLIGHTS_PROVIDER
    respCache,    \* django cache, keys "flights:skyscraper:<sha1>"
    curveCache,   \* django cache, keys "flights:skyscraper:google_curve:..."
    viewCache,    \* django cache, keys "flights:search:..." and "places:airports:..."
    req,          \* the request handled last
    res,          \* what the caller of the last request got
    calls,        \* upstream calls made while handling the last request
    nreq,         \* requests handled so far
    nticks,       \* idle steps of the clock taken so far
    placesLog     \* the autocomplete requests served so far, oldest first

vars ==
    <<clock, settings, respCache, curveCache, viewCache, req, res, calls, nreq, nticks,
      placesLog>>

----------------------------------------------------------------------------
(* Bounds of the model *)

MaxOffers == 2        \* raw records in one upstream list response
MaxPrice == 2         \* raw prices are 1 and MaxPrice
CallTicks == 2        \* ticks a request that calls the upstream takes
MaxRequests == 2      \* requests in one behaviour
MaxTicks == 1         \* idle clock steps in one behaviour
StartClock == 7       \* time.time() at the start, in ticks (positive)
MaxDate == 6          \* the dates of a price curve are the days 1..MaxDate
MaxPoints == 6        \* points of a price curve
MaxChars == 3         \* characters of a price string

(* Program constants *)

RESPONSE_CACHE_TTL == 60 * 5
GRAPH_CACHE_TTL == 60 * 15
VIEW_CACHE_TTL == 600
DEFAULT_LIMIT == 50
MAX_LIMIT == 100
DEFAULT_CURRENCY == "USD"
TicksPerSecond == 2

----------------------------------------------------------------------------
(* Python values *)

NoneStr == "<None>"
Truthy(s) == s # NoneStr /\ s # ""
None == <<>>
Some(v) == <<v>>
IsNone(o) == o = <<>>
Val(o) == o[1]

Min(a, b) == IF a <= b THEN a ELSE b
Max(a, b) == IF a >= b THEN a ELSE b
SetMin(S) == CHOOSE x \in S : \A y \in S : x <= y
SetMax(S) == CHOOSE x \in S : \A y \in S : x >= y
Range(s) == {s[i] : i \in 1..Len(s)}

RECURSIVE SelectSeqIdx(_, _, _)
\* the subsequence of s at the positions i >= from with Keep[i]
SelectSeqIdx(s, Keep, from) ==
    IF from > Len(s) THEN <<>>
    ELSE (IF Keep[from] THEN <<s[from]>> ELSE <<>>) \o SelectSeqIdx(s, Keep, from + 1)

----------------------------------------------------------------------------
(* Field extractors *)

DigitChars == <<"0", "1", "2", "3", "4", "5", "6", "7", "8", "9">>
IsDigit(c) == c \in Range(DigitChars)
DigitVal(c) == (CHOOSE i \in 1..10 : DigitChars[i] = c) - 1
PriceScale == 10 * 10     \* a price p of the program is the integer p * PriceScale

RECURSIVE DigitsValue(_)
DigitsValue(ds) ==
    IF ds = <<>> THEN 0
    ELSE 10 * DigitsValue(SubSeq(ds, 1, Len(ds) - 1)) + DigitVal(ds[Len(ds)])

\* PRICE_RE.sub("", value): drop every character that is no digit and no dot
PriceClean(str) == SelectSeq(str, LAMBDA c : IsDigit(c) \/ c = ".")

\* float(cleaned) for a string of digits and dots: a ValueError unless it has
\* at most one dot and at least one digit
FloatOfCleaned(cl) ==
    LET dots == {i \in 1..Len(cl) : cl[i] = "."}
        dot == IF dots = {} THEN Len(cl) + 1 ELSE CHOOSE i \in dots : TRUE
        whole == SubSeq(cl, 1, dot - 1)
        frac == SubSeq(cl, dot + 1, Len(cl))
        f1 == IF Len(frac) >= 1 THEN DigitVal(frac[1]) ELSE 0
        f2 == IF Len(frac) >= 2 THEN DigitVal(frac[2]) ELSE 0
    IN  IF Cardinality(dots) > 1 \/ Len(cl) = Cardinality(dots)
        THEN [ok |-> FALSE, v |-> 0]
        ELSE [ok |-> TRUE, v |-> DigitsValue(whole) * PriceScale + 10 * f1 + f2]

\* A JSON value found where a price is expected
\* (an object has an amount, 0 when it has none, and a formatted text, empty
\* when it has none)
PNone == [kind |-> "none", num |-> 0, str |-> <<>>, amount |-> 0, formatted |-> <<>>]
PNum(n) == [kind |-> "num", num |-> n * PriceScale, str |-> <<>>, amount |-> 0,
            formatted |-> <<>>]
PStr(s) == [kind |-> "str", num |-> 0, str |-> s, amount |-> 0, formatted |-> <<>>]
\* a non-empty JSON object without amount or formatted
PObj == [kind |-> "obj", num |-> 0, str |-> <<>>, amount |-> 0, formatted |-> <<>>]
\* {"amount": n, "formatted": text}
PObjOf(n, text) ==
    [kind |-> "obj", num |-> 0, str |-> <<>>, amount |-> n * PriceScale, formatted |-> text]
PFalsy(p) ==
    \/ p.kind = "none"
    \/ p.kind = "num" /\ p.num = 0
    \/ p.kind = "str" /\ p.str = <<>>

\* _parse_price: [ok |-> FALSE] is the ValueError float() raises
_parse_price(value) ==
    CASE value.kind = "none" -> [ok |-> TRUE, v |-> 0]
      [] value.kind = "num" -> [ok |-> TRUE, v |-> value.num]
      [] value.kind = "str" ->
            LET cleaned == PriceClean(value.str)
            IN  IF cleaned = <<>> THEN [ok |-> TRUE, v |-> 0] ELSE FloatOfCleaned(cleaned)
      [] OTHER -> [ok |-> TRUE, v |-> 0]

\* raw_offer.get("price") or pricing.price or price.amount or price.formatted:
\* the first truthy operand, else the last.  A non-empty object is truthy, so
\* the amount / formatted operands are reached only with a falsy price, which
\* has neither
RawOfferPrice(raw) ==
    IF ~PFalsy(raw.price) THEN raw.price
    ELSE IF ~PFalsy(raw.pricing) THEN raw.pricing
    ELSE IF raw.price.kind = "obj" /\ raw.price.amount # 0
    THEN [PNone EXCEPT !.kind = "num", !.num = raw.price.amount]
    ELSE IF raw.price.kind = "obj" /\ raw.price.formatted # <<>>
    THEN PStr(raw.price.formatted)
    ELSE PNone

\* _iso_dt: the timestamp of a date and a time of day; NoTs is None
NoTs == [date |-> 0, time |-> <<>>]
Midnight == <<"0", "0", ":", "0", "0", ":", "0", "0">>
Lower(c) ==
    CASE c = "N" -> "n" [] c = "U" -> "u" [] c = "L" -> "l" [] c = "A" -> "a"
      [] c = "B" -> "b" [] c = "E" -> "e" [] c = "I" -> "i" [] c = "K" -> "k"
      [] c = "O" -> "o" [] OTHER -> c
LowerSeq(s) == [i \in 1..Len(s) |-> Lower(s[i])]
RECURSIVE Strip(_)
Strip(s) ==
    IF s = <<>> THEN s
    ELSE IF s[1] = " " THEN Strip(Tail(s))
    ELSE IF s[Len(s)] = " " THEN Strip(SubSeq(s, 1, Len(s) - 1))
    ELSE s
IsHHMM(s, at) ==
    /\ Len(s) >= at + 4
    /\ IsDigit(s[at]) /\ IsDigit(s[at + 1]) /\ s[at + 2] = ":"
    /\ IsDigit(s[at + 3]) /\ IsDigit(s[at + 4])
\* re.match(r"^\d{2}:\d{2}(:\d{2})?$", raw)
TimeShapeOk(s) ==
    \/ Len(s) = 5 /\ IsHHMM(s, 1)
    \/ Len(s) = 8 /\ IsHHMM(s, 1) /\ s[6] = ":" /\ IsDigit(s[7]) /\ IsDigit(s[8])
\* the time left as it is, "null:MM" too
RepairNullHourNever(s) == s
\* re.sub(r"^null:(\d{2})$", r"00:\1", raw, flags=re.IGNORECASE)
RepairNullHour(s) ==
    IF /\ Len(s) = 7
       /\ LowerSeq(SubSeq(s, 1, 5)) = <<"n", "u", "l", "l", ":">>
       /\ IsDigit(s[6]) /\ IsDigit(s[7])
    THEN <<"0", "0", ":", s[6], s[7]>>
    ELSE s
\* the time of day _iso_dt keeps of the stripped text raw0, <<>> for none
IsoTime(raw0, raw1) ==
    IF raw0 # <<>> /\ LowerSeq(raw0) # <<"n", "u", "l", "l">>
       /\ TimeShapeOk(IF Len(raw1) = 5 THEN raw1 \o <<":", "0", "0">> ELSE raw1)
    THEN (IF Len(raw1) = 5 THEN raw1 \o <<":", "0", "0">> ELSE raw1)
    ELSE <<>>
IsoStamp(d, tt) == [date |-> d, time |-> IF tt = <<>> THEN Midnight ELSE tt]
_iso_dt(d, t) ==
    IF d = 0 THEN NoTs ELSE IsoStamp(d, IsoTime(Strip(t), RepairNullHour(Strip(t))))

\* _iter_google_flights: the records of the candidate containers, in order
_iter_google_flights(data) ==
    data.topFlights \o data.otherFlights \o data.flights \o data.results
        \o data.itinerariesResults


----------------------------------------------------------------------------
(* Offer normalizer: search_flights, the loop over the raw records *)

Upper(c) == CASE c = "af" -> "AF" [] c = "ba" -> "BA" [] OTHER -> c

\* max_stops: maxStops, else its alias max_stops
EffMaxStops(params) ==
    IF ~IsNone(params.maxStops) THEN params.maxStops ELSE params.max_stops

\* allowed_airlines_set: the stripped, upper-cased non-blank codes of
\* allowedAirlines (else of its alias), None when that leaves nothing
EffAllowedAirlines(params) ==
    LET given == IF ~IsNone(params.allowedAirlines) THEN params.allowedAirlines
                 ELSE params.allowed_airlines
        codes == IF IsNone(given) THEN {}
                 ELSE {Upper(c) : c \in {x \in Range(Val(given)) : x # ""}}
    IN  IF codes = {} THEN None ELSE Some(codes)

\* one segment of a raw record
NormalizeSegment(s, query_params) ==
    [from |-> IF Truthy(s.from) THEN s.from ELSE query_params.origin,
     to |-> IF Truthy(s.to) THEN s.to ELSE query_params.destination,
     departAt |-> _iso_dt(s.departureDate, s.departureTime),
     arriveAt |-> _iso_dt(s.arrivalDate, s.arrivalTime),
     airline |-> s.airline,
     durationMinutes |-> IF IsNone(s.durationMinutes) THEN 0 ELSE Val(s.durationMinutes)]

RECURSIVE Flatten(_)
Flatten(legs) == IF legs = <<>> THEN <<>> ELSE Head(legs) \o Flatten(Tail(legs))

\* the segments of a raw record: its segments, else those of its legs
RawSegments(raw) == IF raw.segments # <<>> THEN raw.segments ELSE Flatten(raw.legs)

RECURSIVE SumDurations(_)
SumDurations(segments) ==
    IF segments = <<>> THEN 0
    ELSE Head(segments).durationMinutes + SumDurations(Tail(segments))

_compute_duration_minutes(segments) == SumDurations(segments)

\* stops = max(len(segments) - 1, 0)
StopsOf(segments) == Max(Len(segments) - 1, 0)

\* seg_airlines: the truthy airline codes of the segments
SegAirlines(segments) == {segments[i].airline : i \in 1..Len(segments)} \ {NoneStr, ""}

SkipNoSegmentsNever(segments, max_stops, allowed) == FALSE

\* "if not segments and (max_stops is not None or allowed_airlines_set is not None)"
SkipNoSegments(segments, max_stops, allowed) ==
    segments = <<>> /\ (~IsNone(max_stops) \/ ~IsNone(allowed))

\* "if max_stops is not None and stops > max_stops: continue"
ExceedsMaxStops(stops, max_stops) == ~IsNone(max_stops) /\ stops > Val(max_stops)

FailsAllowedAirlinesAny(seg_codes, allowed) ==
    ~IsNone(allowed) /\ seg_codes \cap Val(allowed) = {}

\* "if not seg_codes or not all(c in allowed_airlines_set ...): continue"
FailsAllowedAirlines(seg_codes, allowed) ==
    ~IsNone(allowed) /\ (seg_codes = {} \/ ~(seg_codes \subseteq Val(allowed)))

\* vendor_id = id or flightId or detailToken or "idx_<idx>", hashed
_short_offer_id(raw, idx) == IF raw.id # 0 THEN <<"vendor", raw.id>> ELSE <<"idx", idx>>

\* the segments of a raw record, normalized
NormalizeSegments(rs, query_params) ==
    [i \in 1..Len(rs) |-> NormalizeSegment(rs[i], query_params)]

\* the offer built of a raw record, its price and its normalized segments
BuildOffer(raw, idx, query_params, price_total, segments) ==
    [id |-> _short_offer_id(raw, idx),
     price |-> [total |-> price_total.v, currency |-> query_params.currency],
     stops |-> StopsOf(segments),
     durationMinutes |-> _compute_duration_minutes(segments),
     airlines |-> SegAirlines(segments),
     segments |-> segments,
     departAt |-> IF segments = <<>> THEN NoTs ELSE segments[1].departAt,
     arriveAt |-> IF segments = <<>> THEN NoTs ELSE segments[Len(segments)].arriveAt]

\* what the loop does with one record: kind "error" (float() raised), "skip"
\* (continue) or "offer" (appended)
LoopStep(price_total, offer, max_stops, allowed) ==
    [kind |-> IF ~price_total.ok THEN "error"
              ELSE IF \/ SkipNoSegments(offer.segments, max_stops, allowed)
                      \/ ExceedsMaxStops(offer.stops, max_stops)
                      \/ FailsAllowedAirlines(offer.airlines, allowed)
              THEN "skip"
              ELSE "offer",
     offer |-> offer]

\* one raw record: its price, its segments, the filters
NormalizeRecord(raw, idx, query_params, max_stops, allowed, price_total) ==
    LoopStep(price_total,
             BuildOffer(raw, idx, query_params, price_total,
                        NormalizeSegments(RawSegments(raw), query_params)),
             max_stops, allowed)

NormalizeOffer(raw, idx, query_params, max_stops, allowed) ==
    NormalizeRecord(raw, idx, query_params, max_stops, allowed,
                    _parse_price(RawOfferPrice(raw)))

\* the offers appended by the steps n, unless one of them raised
CollectOffers(n) ==
    [ok |-> \A i \in 1..Len(n) : n[i].kind # "error",
     offers |-> SelectSeqIdx([i \in 1..Len(n) |-> n[i].offer],
                             [i \in 1..Len(n) |-> n[i].kind = "offer"], 1)]

\* the loop "for idx, raw_offer in enumerate(raw_offers)"
NormalizeOffers(raw_offers, query_params, max_stops, allowed) ==
    CollectOffers([i \in 1..Len(raw_offers) |->
                      NormalizeOffer(raw_offers[i], i - 1, query_params, max_stops, allowed)])

----------------------------------------------------------------------------
(* Offer collection processor *)

\* the key without the segments
DedupeKeyNoSegments(o) == <<o.price.total, o.stops, o.departAt, o.arriveAt>>

\* the key of _dedupe_offers
DedupeKey(o) ==
    <<o.price.total, o.stops, o.departAt, o.arriveAt,
      [i \in 1..Len(o.segments) |->
          <<o.segments[i].from, o.segments[i].to, o.segments[i].departAt,
            o.segments[i].arriveAt, o.segments[i].airline>>]>>

_dedupe_offers(offers) ==
    LET first == [i \in 1..Len(offers) |->
                     \A j \in 1..(i - 1) : DedupeKey(offers[j]) # DedupeKey(offers[i])]
    IN  SelectSeqIdx(offers, first, 1)

\* sorted(offers, key = ...), keys[i] the key of offers[i]: ascending by key,
\* offers of equal key in their order in offers (Python's sort is stable)
SortedByKey(offers, keys) ==
    LET n == Len(offers)
        pos(i) == 1 + Cardinality({j \in 1..n :
                        keys[j] < keys[i] \/ (keys[j] = keys[i] /\ j < i)})
    IN  [p \in 1..n |-> offers[CHOOSE i \in 1..n : pos(i) = p]]

_sort_offers(offers, sort_by) ==
    CASE sort_by = "cheapest" ->
            SortedByKey(offers, [i \in 1..Len(offers) |-> offers[i].price.total])
      [] sort_by = "shortest" ->
            SortedByKey(offers, [i \in 1..Len(offers) |-> offers[i].durationMinutes])
      [] sort_by = "least_stops" ->
            SortedByKey(offers, [i \in 1..Len(offers) |-> offers[i].stops])
      [] OTHER -> offers

\* params.get("sort") or "cheapest"
EffSort(params) == IF Truthy(params.sort) THEN params.sort ELSE "cheapest"

\* a limit that is given and that int() raises on (a word, a list)
NotAnInt == <<0, 0>>

\* int(raw_limit), 50 when the limit is absent or int() raises
IntLimit(limit) ==
    IF IsNone(limit) \/ limit = NotAnInt THEN DEFAULT_LIMIT ELSE Val(limit)

\* the limit without the clamp
EffLimitUnclamped(params) == IntLimit(params.limit)

\* limit = max(1, min(limit, 100))
EffLimit(params) == Max(1, Min(IntLimit(params.limit), MAX_LIMIT))

Take(s, n) == SubSeq(s, 1, Min(n, Len(s)))

\* the same with the price range read off the first and the last offer
OffersMetaFirstLast(offers) ==
    LET count(P(_)) == Cardinality({i \in 1..Len(offers) : P(offers[i].stops)})
        zero(st) == st <= 0
        one(st) == st = 1
        more(st) == st > 1
    IN  [minPrice |-> IF offers = <<>> THEN None ELSE Some(offers[1].price.total),
         maxPrice |-> IF offers = <<>> THEN None ELSE Some(offers[Len(offers)].price.total),
         airlines |-> UNION {offers[i].airlines : i \in 1..Len(offers)},
         stopsCounts |-> [zero |-> count(zero), one |-> count(one), twoPlus |-> count(more)]]

\* min_price, max_price, stops_counts, airlines_set over the offers given
OffersMeta(offers) ==
    LET prices == {offers[i].price.total : i \in 1..Len(offers)}
        count(P(_)) == Cardinality({i \in 1..Len(offers) : P(offers[i].stops)})
        zero(st) == st <= 0
        one(st) == st = 1
        more(st) == st > 1
    IN  [minPrice |-> IF prices = {} THEN None ELSE Some(SetMin(prices)),
         maxPrice |-> IF prices = {} THEN None ELSE Some(SetMax(prices)),
         airlines |-> UNION {offers[i].airlines : i \in 1..Len(offers)},
         stopsCounts |-> [zero |-> count(zero), one |-> count(one), twoPlus |-> count(more)]]


----------------------------------------------------------------------------
(* Upstream calls *)

\* _request_json with every failure reported as 502
RequestJsonFlat(http) ==
    IF http.transport THEN [ok |-> FALSE, status |-> 502, outcome |-> "transport"]
    ELSE IF http.status >= 400 THEN [ok |-> FALSE, status |-> 502, outcome |-> "http_error"]
    ELSE IF ~http.json THEN [ok |-> FALSE, status |-> 502, outcome |-> "bad_json"]
    ELSE [ok |-> TRUE, status |-> http.status, outcome |-> "ok"]

\* An HTTP exchange: transport (requests raised), else status and, when json,
\* body.  _request_json gives the body or raises a ProviderError with a status.
_request_json(http) ==
    IF http.transport THEN [ok |-> FALSE, status |-> 502, outcome |-> "transport"]
    ELSE IF http.status >= 400
         THEN [ok |-> FALSE, status |-> http.status, outcome |-> "http_error"]
    ELSE IF ~http.json THEN [ok |-> FALSE, status |-> 502, outcome |-> "bad_json"]
    ELSE [ok |-> TRUE, status |-> http.status, outcome |-> "ok"]

\* the record of one upstream call: the endpoint, what the upstream answered
\* (its HTTP status, 0 when the transport failed; the status field of a list
\* payload; the body) and how _request_json ended
Call(ep, http, outcome, payload_status) ==
    [ep |-> ep, outcome |-> outcome,
     status |-> IF http.transport THEN 0 ELSE http.status,
     payloadStatus |-> payload_status,
     body |-> http.body]

\* the status search_flights raises for a list payload whose status is false
ListStatusFalseCode == 502

\* the status of the ProviderError raised without an API key
MissingKeyCode == 500

----------------------------------------------------------------------------
(* Price-history reconciler *)

\* [{date, price}] sorted by date, the highest price of each date
RECURSIVE SeriesFromHighest(_, _)
SeriesFromHighest(pts, dates) ==
    IF dates = {} THEN <<>>
    ELSE LET d == SetMin(dates)
         IN  <<[date |-> d, price |-> SetMax({pt[2] : pt \in {q \in pts : q[1] = d}})]>>
                 \o SeriesFromHighest(pts, dates \ {d})
HighestPerDate(pts) == SeriesFromHighest(pts, {pt[1] : pt \in pts})

\* [{date, price}] sorted by date, the lowest price of each date: pts is a set of
\* <<date, price>> pairs
RECURSIVE SeriesFrom(_, _)
SeriesFrom(pts, dates) ==
    IF dates = {} THEN <<>>
    ELSE LET d == SetMin(dates)
         IN  <<[date |-> d, price |-> SetMin({pt[2] : pt \in {q \in pts : q[1] = d}})]>>
                 \o SeriesFrom(pts, dates \ {d})
LowestPerDate(pts) == SeriesFrom(pts, {pt[1] : pt \in pts})

\* _normalize_price_history_from_google_price_graph: the items with a date and a
\* numeric price
_normalize_price_history_from_google_price_graph(payload) ==
    LET data == payload.data
        good == {i \in 1..Len(data) : data[i].departureDate # 0 /\ data[i].price.kind = "num"}
    IN  LowestPerDate({<<data[i].departureDate, data[i].price.num>> : i \in good})

\* _normalize_price_history_from_everywhere: per item rawPrice when numeric, else
\* _parse_price(price); ok is FALSE when that raises
_normalize_price_history_from_everywhere(payload) ==
    LET results == payload.results
        good == {i \in 1..Len(results) : results[i].localDepartureDate # 0}
        price(i) == IF results[i].rawPrice.kind = "num"
                    THEN [ok |-> TRUE, v |-> results[i].rawPrice.num]
                    ELSE _parse_price(results[i].price)
    IN  [ok |-> \A i \in good : price(i).ok,
         series |-> LowestPerDate({<<results[i].localDepartureDate, price(i).v>> : i \in good})]

\* _offer_depart_date: the date of the first segment's departAt, 0 for None
_offer_depart_date(offer) ==
    IF offer.segments = <<>> THEN 0 ELSE offer.segments[1].departAt.date

_build_offer_curve(offers) ==
    LET dated == {i \in 1..Len(offers) : _offer_depart_date(offers[i]) # 0}
    IN  LowestPerDate({<<_offer_depart_date(offers[i]), offers[i].price.total>> : i \in dated})

\* the number of points taken for the span
SeriesPointCount(series) == Len(series)

_series_date_span_days(series) ==
    LET dates == {series[i].date : i \in 1..Len(series)}
    IN  IF Len(series) < 2 THEN 0 ELSE SetMax(dates) - SetMin(dates)

_should_override_curve(offers_curve, existing_curve) ==
    IF Len(offers_curve) < 2 THEN FALSE
    ELSE IF existing_curve = <<>> THEN TRUE
    ELSE IF Len(offers_curve) >= 5 THEN TRUE
    ELSE IF Len(offers_curve) > Len(existing_curve)
         THEN _series_date_span_days(offers_curve) > _series_date_span_days(existing_curve)
    ELSE FALSE

\* sorted(priceHistory, key = date): stable
SortByDate(series) == SortedByKey(series, [i \in 1..Len(series) |-> series[i].date])

_to_google_airport(value) ==
    CASE value = "NYC" -> "JFK"
      [] value = "NYCA" -> "JFK"
      [] value = "LON" -> "LHR"
      [] value = "PAR" -> "CDG"
      [] OTHER -> value

_to_everywhere_entity(value) ==
    CASE ~Truthy(value) -> NoneStr
      [] value = "JFK" -> "JFKA"
      [] value = "LHR" -> "LHRA"
      [] value = "NYC" -> "NYCA"
      [] OTHER -> value


----------------------------------------------------------------------------
(* Cache layer: django.core.cache as a key-value store with expiry *)

EmptyCache == [k \in {} |-> 0]

\* cache.get(key) at time t: None when absent or expired
CacheGet(c, key, t) ==
    IF key \in DOMAIN c /\ t < c[key].expires THEN Some(c[key].value) ELSE None

\* cache.set(key, value, timeout) at time t
CacheSet(c, key, value, t, timeout) ==
    [k \in DOMAIN c \cup {key} |->
        IF k = key THEN [value |-> value, expires |-> t + timeout * TicksPerSecond]
        ELSE c[k]]

\* int(now_ts - cached_at), both in ticks
WholeSeconds(ticks) == ticks \div TicksPerSecond

\* _cache_key("flights:skyscraper", cache_payload): the digest of the payload
_cache_key(params) ==
    [origin |-> params.origin, destination |-> params.destination,
     departDate |-> params.departDate, returnDate |-> params.returnDate,
     adults |-> params.adults, cabin |-> params.cabin, currency |-> params.currency,
     sort |-> params.sort, limit |-> params.limit, maxStops |-> params.maxStops,
     allowedAirlines |-> params.allowedAirlines]

_google_curve_cache_key(params) ==
    <<_to_google_airport(params.origin), _to_google_airport(params.destination),
      params.departDate, params.returnDate,
      IF Truthy(params.currency) THEN params.currency ELSE "">>

----------------------------------------------------------------------------
(* Provider orchestrator: SkyScraperProvider.search_flights *)

EffCurrency(params) == IF Truthy(params.currency) THEN params.currency ELSE DEFAULT_CURRENCY

QueryEcho(params) ==
    [origin |-> params.origin, destination |-> params.destination,
     departDate |-> params.departDate, returnDate |-> params.returnDate,
     adults |-> params.adults, cabin |-> params.cabin, currency |-> EffCurrency(params)]

NoMeta ==
    [minPrice |-> None, maxPrice |-> None, airlines |-> {},
     stopsCounts |-> [zero |-> 0, one |-> 0, twoPlus |-> 0],
     priceHistory |-> <<>>, priceHistorySource |-> "none",
     priceHistoryFilterAware |-> FALSE, priceHistoryPoints |-> 0,
     cached |-> FALSE, cacheAgeSeconds |-> None, cacheTtlSeconds |-> None]

\* "no result": what a raised error leaves the caller with
NoQuery ==
    [origin |-> "", destination |-> "", departDate |-> 0, returnDate |-> 0,
     adults |-> 0, cabin |-> "", currency |-> ""]
NoResult == [query |-> NoQuery, offers |-> <<>>, meta |-> NoMeta]

\* the response-cache read: the payload with its meta updated, when the entry
\* is a dict with offers
ResponseCacheHit(entry, now_ts) ==
    LET payload == entry.payload
        cached_at == entry.cached_at
    IN  [payload EXCEPT
            !.meta.cached = TRUE,
            !.meta.cacheAgeSeconds =
                IF cached_at # 0 THEN Some(WholeSeconds(now_ts - cached_at)) ELSE None,
            !.meta.cacheTtlSeconds = Some(RESPONSE_CACHE_TTL),
            !.meta.priceHistoryPoints = Len(payload.meta.priceHistory)]

\* whether the freshly computed result is stored in the response cache
StoresResponse(bypass_cache) == ~bypass_cache

\* The price graph precedence.  now_ts is the time the request started, t the
\* time of the cache accesses after the list call.  Each step gives
\* [ok, priceHistory, source, cacheAge, cacheTtl, cc, calls].

\* 1) the Google price graph: the cached curve, else the one fetched (g is what
\* _request_json made of the answer, graph_series the curve normalized of it)
GraphFetched(params, now_ts, t, cc, up, g, graph_series) ==
    [ok |-> TRUE,
     priceHistory |-> graph_series,
     source |-> IF graph_series # <<>> THEN "google_price_graph" ELSE "none",
     filterAware |-> FALSE,
     cacheAge |-> None,
     cacheTtl |-> None,
     cc |-> IF graph_series # <<>>
            THEN CacheSet(cc, _google_curve_cache_key(params),
                          [data |-> graph_series, cached_at |-> now_ts], t, GRAPH_CACHE_TTL)
            ELSE cc,
     calls |-> <<Call("graph", up.graph, g.outcome, TRUE)>>]

GraphCached(now_ts, cc, curve) ==
    [ok |-> TRUE,
     priceHistory |-> curve.data,
     source |-> IF curve.data # <<>> THEN "google_price_graph" ELSE "none",
     filterAware |-> FALSE,
     cacheAge |-> IF curve.data # <<>> /\ curve.cached_at # 0
                  THEN Some(WholeSeconds(now_ts - curve.cached_at)) ELSE None,
     cacheTtl |-> IF curve.data # <<>> THEN Some(GRAPH_CACHE_TTL) ELSE None,
     cc |-> cc,
     calls |-> <<>>]

GraphCall(params, now_ts, t, cc, up, g) ==
    GraphFetched(params, now_ts, t, cc, up, g,
                 IF g.ok THEN _normalize_price_history_from_google_price_graph(up.graph.body)
                 ELSE <<>>)

GraphCurve(params, now_ts, t, cc, up, cached_curve) ==
    IF ~IsNone(cached_curve) THEN GraphCached(now_ts, cc, Val(cached_curve))
    ELSE GraphCall(params, now_ts, t, cc, up, _request_json(up.graph))

\* 2) the curve of the offers, when _should_override_curve prefers it
OfferCurve(h, offers_curve, override) ==
    IF override
    THEN [h EXCEPT !.priceHistory = offers_curve, !.source = "offers",
                   !.filterAware = TRUE, !.cacheAge = None, !.cacheTtl = None]
    ELSE h

\* 3) search-everywhere, when there is still no curve (e is what _request_json
\* made of the answer, ok is FALSE when normalizing it raised)
EverywhereFetched(h, up, e, norm) ==
    [h EXCEPT !.ok = norm.ok,
              !.priceHistory = IF e.ok THEN norm.series ELSE h.priceHistory,
              !.source = IF e.ok THEN "search_everywhere" ELSE h.source,
              !.filterAware = IF e.ok THEN FALSE ELSE h.filterAware,
              !.calls = h.calls \o <<Call("everywhere", up.everywhere, e.outcome, TRUE)>>]

EverywhereCall(h, up, e) ==
    EverywhereFetched(h, up, e,
        IF e.ok THEN _normalize_price_history_from_everywhere(up.everywhere.body)
        ELSE [ok |-> TRUE, series |-> <<>>])

\* search-everywhere asked whatever curve there is
EverywhereCurveAlways(params, h, up) ==
    IF Truthy(_to_everywhere_entity(params.origin))
       /\ Truthy(_to_everywhere_entity(params.destination))
    THEN EverywhereCall(h, up, _request_json(up.everywhere))
    ELSE h

EverywhereCurve(params, h, up) ==
    IF h.priceHistory = <<>> /\ Truthy(_to_everywhere_entity(params.origin))
                             /\ Truthy(_to_everywhere_entity(params.destination))
    THEN EverywhereCall(h, up, _request_json(up.everywhere))
    ELSE h

\* the flags left as the three steps set them
FinalFlagsAsSet(h) == h

\* the final flags: no source and no filter awareness without a curve
FinalFlags(h) ==
    [ok |-> h.ok,
     priceHistory |-> h.priceHistory,
     source |-> IF h.priceHistory = <<>> THEN "none" ELSE h.source,
     filterAware |-> IF h.priceHistory = <<>> THEN FALSE ELSE h.filterAware,
     cacheAge |-> h.cacheAge,
     cacheTtl |-> h.cacheTtl,
     cc |-> h.cc,
     calls |-> h.calls]

OfferCurveStep(h, offers_curve) ==
    OfferCurve(h, offers_curve, _should_override_curve(offers_curve, h.priceHistory))

PriceHistoryReconcile(params, now_ts, t, cc, offers_for_curve, up) ==
    FinalFlags(
        EverywhereCurve(params,
            OfferCurveStep(
                GraphCurve(params, now_ts, t, cc, up,
                           CacheGet(cc, _google_curve_cache_key(params), t)),
                _build_offer_curve(offers_for_curve)),
            up))

\* what search_flights leaves when it raises: outcome "provider_error" with the
\* status of the ProviderError, or "exception" for another exception
Raises(outcome, status, rc, cc, cs) ==
    [outcome |-> outcome, status |-> status, result |-> NoResult,
     rc |-> rc, cc |-> cc, calls |-> cs]

\* the result: the query echoed, the offers, the meta of the offers and of the
\* price history
BuildResult(params, offers, m, h) ==
    [query |-> QueryEcho(params),
     offers |-> offers,
     meta |-> [minPrice |-> m.minPrice, maxPrice |-> m.maxPrice, airlines |-> m.airlines,
               stopsCounts |-> m.stopsCounts,
               priceHistory |-> SortByDate(h.priceHistory),
               priceHistorySource |-> h.source,
               priceHistoryFilterAware |-> h.filterAware,
               priceHistoryPoints |-> Len(h.priceHistory),
               cached |-> FALSE,
               cacheAgeSeconds |-> h.cacheAge,
               cacheTtlSeconds |-> h.cacheTtl]]

\* the result returned, stored in the response cache unless bypassed
ReturnFresh(params, now_ts, t, rc, cc, cs, result) ==
    [outcome |-> "ok", status |-> 200, result |-> result,
     rc |-> IF StoresResponse(params.bypassCache)
            THEN CacheSet(rc, _cache_key(params), [payload |-> result, cached_at |-> now_ts],
                          t, RESPONSE_CACHE_TTL)
            ELSE rc,
     cc |-> cc, calls |-> cs]

\* after the price history: a ValueError of its normalizer, else the result
AfterReconcile(params, now_ts, t, rc, listCall, offers, h) ==
    IF ~h.ok THEN Raises("exception", 0, rc, h.cc, listCall \o h.calls)
    ELSE ReturnFresh(params, now_ts, t, rc, h.cc, listCall \o h.calls,
                     BuildResult(params, offers, OffersMeta(offers), h))

\* the curve of the offers taken of the offers the limit leaves
AfterSortCurveOfReturned(params, now_ts, t, rc, cc, up, listCall, sorted) ==
    AfterReconcile(params, now_ts, t, rc, listCall, Take(sorted, EffLimit(params)),
                   PriceHistoryReconcile(params, now_ts, t, cc,
                                         Take(sorted, EffLimit(params)), up))

\* after dedupe and sort: the limit, the meta, the price history
AfterSort(params, now_ts, t, rc, cc, up, listCall, sorted) ==
    AfterReconcile(params, now_ts, t, rc, listCall, Take(sorted, EffLimit(params)),
                   PriceHistoryReconcile(params, now_ts, t, cc, sorted, up))

\* after the loop over the raw records
AfterNormalize(params, now_ts, t, rc, cc, up, listCall, normalized) ==
    IF ~normalized.ok THEN Raises("exception", 0, rc, cc, listCall)
    ELSE AfterSort(params, now_ts, t, rc, cc, up, listCall,
                   _sort_offers(_dedupe_offers(normalized.offers), EffSort(params)))

\* after the list call (lst is what _request_json made of the answer)
AfterListCall(params, now_ts, t, rc, cc, up, lst, listCall) ==
    IF ~lst.ok THEN Raises("provider_error", lst.status, rc, cc, listCall)
    ELSE IF ~up.list.body.status
    THEN Raises("provider_error", ListStatusFalseCode, rc, cc, listCall)
    ELSE AfterNormalize(params, now_ts, t, rc, cc, up, listCall,
            NormalizeOffers(_iter_google_flights(up.list.body.data),
                            [origin |-> params.origin, destination |-> params.destination,
                             currency |-> EffCurrency(params)],
                            EffMaxStops(params), EffAllowedAirlines(params)))

\* the list call made again when it failed
FetchListRetried(params, now_ts, t, rc, cc, up, lst) ==
    AfterListCall(params, now_ts, t, rc, cc, up, lst,
                  IF lst.ok THEN <<Call("list", up.list, lst.outcome, up.list.body.status)>>
                  ELSE <<Call("list", up.list, lst.outcome, up.list.body.status),
                         Call("list", up.list, lst.outcome, up.list.body.status)>>)

\* the list call: _request_json(list_url, ...)
FetchList(params, now_ts, t, rc, cc, up, lst) ==
    AfterListCall(params, now_ts, t, rc, cc, up, lst,
                  <<Call("list", up.list, lst.outcome, up.list.body.status)>>)

\* after the response-cache read
AfterCacheRead(params, now_ts, t, rc, cc, up, cached) ==
    IF ~IsNone(cached)
    THEN [outcome |-> "ok", status |-> 200,
          result |-> ResponseCacheHit(Val(cached), now_ts),
          rc |-> rc, cc |-> cc, calls |-> <<>>]
    ELSE FetchList(params, now_ts, t, rc, cc, up, _request_json(up.list))

\* search_flights reading the response cache before it looks for the API key
SearchFlightsCacheFirst(params, cfg, now_ts, t, rc, cc, up) ==
    IF ~params.bypassCache /\ ~IsNone(CacheGet(rc, _cache_key(params), now_ts))
    THEN AfterCacheRead(params, now_ts, t, rc, cc, up,
                        CacheGet(rc, _cache_key(params), now_ts))
    ELSE IF ~cfg.apiKey THEN Raises("provider_error", MissingKeyCode, rc, cc, <<>>)
    ELSE AfterCacheRead(params, now_ts, t, rc, cc, up, None)

\* search_flights(params) started at now_ts, its list call answered at t, with
\* the upstream answering up.list, up.graph, up.everywhere when asked.
\* outcome: "ok" (result returned), "provider_error" (ProviderError raised, with
\* status) or "exception" (another exception raised).
search_flights(params, cfg, now_ts, t, rc, cc, up) ==
    IF ~cfg.apiKey THEN Raises("provider_error", MissingKeyCode, rc, cc, <<>>)
    ELSE AfterCacheRead(params, now_ts, t, rc, cc, up,
                        IF params.bypassCache THEN None
                        ELSE CacheGet(rc, _cache_key(params), now_ts))


----------------------------------------------------------------------------
(* Provider selection and the view *)

\* get_flight_provider: 0 when the provider is returned, else the status of the
\* ProviderError it raises
get_flight_provider(cfg) ==
    LET raw_name == IF Truthy(cfg.provider) THEN cfg.provider ELSE "skyscraper"
        provider_name == IF raw_name \in {"skyscraper", "sky-scrapper", "flights-sky"}
                         THEN "skyscraper" ELSE raw_name
    IN  CASE provider_name = "skyscraper" -> 0
          [] provider_name = "amadeus" -> 501
          [] OTHER -> 500

\* _to_str_list of a list: stripped, upper-cased, blanks dropped
_to_str_list(v) ==
    IF IsNone(v) THEN None
    ELSE Some([i \in 1..Len(SelectSeq(Val(v), LAMBDA x : x # "")) |->
                  Upper(SelectSeq(Val(v), LAMBDA x : x # "")[i])])

\* _to_int: None for None and for what int() raises on
_to_int(v) == IF v = NotAnInt THEN None ELSE v

\* normalized_params, as forwarded to the provider: the validated serializer
\* fields plus sort, limit, maxStops, allowedAirlines read from the raw body
NormalizedParams(raw) ==
    [raw EXCEPT !.allowedAirlines = _to_str_list(raw.allowedAirlines),
                !.limit = _to_int(raw.limit),
                !.max_stops = None, !.allowed_airlines = None, !.bypassCache = FALSE]

\* _ck: None becomes the empty string
_ck(v) == IF v = NoneStr THEN "" ELSE v

\* a code as the text between the commas of a joined list: "AF,BA" is the one
\* code with a comma in it
CommaTokens(code) == IF code = "AF,BA" THEN <<"AF", ",", "BA">> ELSE <<code>>

\* ",".join(codes)
RECURSIVE JoinCodes(_)
JoinCodes(codes) ==
    IF codes = <<>> THEN <<>>
    ELSE IF Len(codes) = 1 THEN CommaTokens(codes[1])
    ELSE CommaTokens(codes[1]) \o <<",">> \o JoinCodes(Tail(codes))

\* the view's cache_key, field by field
ViewCacheKey(np) ==
    <<np.origin, np.destination, np.departDate, np.returnDate, np.adults, np.cabin,
      _ck(np.currency), _ck(np.sort), np.limit, np.maxStops,
      JoinCodes(IF IsNone(np.allowedAirlines) THEN <<>> ELSE Val(np.allowedAirlines))>>

\* exc.status_code or 502
ErrorResponseStatus(status_code) == IF status_code # 0 THEN status_code ELSE 502

\* the view keeping in its cache whatever search_flights ended with
ViewAnswerKeepingFailures(vc, cache_key, t, r) ==
    [kind |-> IF r.outcome = "exception" THEN "raised" ELSE "response",
     status |-> CASE r.outcome = "provider_error" -> ErrorResponseStatus(r.status)
                  [] r.outcome = "exception" -> 0
                  [] OTHER -> 200,
     exc |-> IF r.outcome = "exception" THEN "ValueError" ELSE "none",
     result |-> r.result,
     vc |-> CacheSet(vc, cache_key, r.result, t, VIEW_CACHE_TTL),
     rc |-> r.rc, cc |-> r.cc, calls |-> r.calls]

\* what the view answers to the outcome r of search_flights; kind "response":
\* a Response with that status; kind "raised": an exception left the view (exc
\* names it, status is its status_code when it has one)
ViewAnswer(vc, cache_key, t, r) ==
    [kind |-> IF r.outcome = "exception" THEN "raised" ELSE "response",
     status |-> CASE r.outcome = "provider_error" -> ErrorResponseStatus(r.status)
                  [] r.outcome = "exception" -> 0
                  [] OTHER -> 200,
     exc |-> IF r.outcome = "exception" THEN "ValueError" ELSE "none",
     result |-> r.result,
     vc |-> IF r.outcome = "ok" THEN CacheSet(vc, cache_key, r.result, t, VIEW_CACHE_TTL)
            ELSE vc,
     rc |-> r.rc, cc |-> r.cc, calls |-> r.calls]

\* the view without a call of the provider
ViewShortcut(kind, status, exc, result, vc, rc, cc) ==
    [kind |-> kind, status |-> status, exc |-> exc, result |-> result,
     vc |-> vc, rc |-> rc, cc |-> cc, calls |-> <<>>]

\* after the read of the view's cache
AfterViewCacheRead(np, cfg, now, t, vc, rc, cc, up, cached, provider) ==
    IF ~IsNone(cached) THEN ViewShortcut("response", 200, "none", Val(cached), vc, rc, cc)
    ELSE IF provider # 0
    THEN ViewShortcut("raised", provider, "ProviderError", NoResult, vc, rc, cc)
    ELSE ViewAnswer(vc, ViewCacheKey(np), t, search_flights(np, cfg, now, t, rc, cc, up))

ViewWith(np, cfg, now, t, vc, rc, cc, up) ==
    AfterViewCacheRead(np, cfg, now, t, vc, rc, cc, up,
                       CacheGet(vc, ViewCacheKey(np), now), get_flight_provider(cfg))

\* FlightSearchView.post(raw) at now, the provider's list call answered at t
FlightSearchViewPost(raw, cfg, now, t, vc, rc, cc, up) ==
    ViewWith(NormalizedParams(raw), cfg, now, t, vc, rc, cc, up)


----------------------------------------------------------------------------
(* Inputs *)

BaseParams ==
    [origin |-> "JFK", destination |-> "LHR", departDate |-> 1, returnDate |-> 0,
     adults |-> 1, cabin |-> "ECONOMY", currency |-> NoneStr, sort |-> NoneStr,
     limit |-> None, maxStops |-> None, allowedAirlines |-> None,
     max_stops |-> None, allowed_airlines |-> None, bypassCache |-> FALSE]

T1030 == <<"1", "0", ":", "3", "0">>
T1845 == <<"1", "8", ":", "4", "5", ":", "0", "0">>

\* a raw segment flown by airline, the i-th of k: the first leaves the query's
\* origin, the last reaches its destination, connections are at CDG
RawSeg(airline, i, k, date) ==
    [from |-> IF i = 1 THEN NoneStr ELSE "CDG", to |-> IF i = k THEN NoneStr ELSE "CDG",
     departureDate |-> date, departureTime |-> T1030,
     arrivalDate |-> date, arrivalTime |-> T1845,
     airline |-> airline, durationMinutes |-> Some(60 * i)]

RawSegs(airlines, date) ==
    [i \in 1..Len(airlines) |-> RawSeg(airlines[i], i, Len(airlines), date)]

\* a raw record with its segments given directly; the vendor gives no duration
\* for the whole record unless a fixture sets one
RawOffer(id, price, airlines, date) ==
    [id |-> id, price |-> price, pricing |-> PNone, durationMinutes |-> None,
     segments |-> RawSegs(airlines, date), legs |-> <<>>]

\* the same record in the legs -> segments shape
RawOfferLegs(id, price, airlines, date) ==
    [id |-> id, price |-> price, pricing |-> PNone, durationMinutes |-> None,
     segments |-> <<>>, legs |-> <<RawSegs(airlines, date)>>]

ListData(flights) ==
    [topFlights |-> <<>>, otherFlights |-> <<>>, flights |-> flights, results |-> <<>>,
     itinerariesResults |-> <<>>]

Http(transport, status, json, body) ==
    [transport |-> transport, status |-> status, json |-> json, body |-> body]

ListOk(flights) == Http(FALSE, 200, TRUE, [status |-> TRUE, data |-> ListData(flights)])
GraphOk(data) == Http(FALSE, 200, TRUE, [data |-> data])
EverywhereOk(results) == Http(FALSE, 200, TRUE, [results |-> results])

\* the ways one call fails in _request_json, for a body b of the endpoint
HttpFailures(b) ==
    {Http(TRUE, 0, FALSE, b), Http(FALSE, 429, TRUE, b), Http(FALSE, 500, FALSE, b),
     Http(FALSE, 200, FALSE, b)}

GraphItem(date, price) == [departureDate |-> date, price |-> price]
Quote(date, rawPrice, price) ==
    [localDepartureDate |-> date, rawPrice |-> rawPrice, price |-> price]

BoundedSeqs(S, n) == UNION {[1..m -> S] : m \in 0..n}


----------------------------------------------------------------------------
(* The system: requests arriving at the provider and at the view, over time *)

NoRequest == [via |-> "none", params |-> BaseParams, now |-> 0, raw_offers |-> <<>>]
NoResponse == [kind |-> "none", status |-> 0, exc |-> "none", result |-> NoResult]

\* the raw records the last request read from the list endpoint
ConsumedOffers(cs, up) ==
    IF cs # <<>> /\ cs[1].outcome = "ok" /\ up.list.body.status
    THEN _iter_google_flights(up.list.body.data) ELSE <<>>

\* a caller invokes provider.search_flights(params); the request takes
\* CallTicks when it calls the upstream, and no time otherwise
SearchFlights(P, U) ==
    /\ nreq < MaxRequests
    /\ \E params \in P, up \in U :
        \E r \in {search_flights(params, settings, clock, clock + CallTicks,
                                 respCache, curveCache, up)} :
            /\ clock' = IF r.calls = <<>> THEN clock ELSE clock + CallTicks
            /\ respCache' = r.rc
            /\ curveCache' = r.cc
            /\ calls' = r.calls
            /\ req' = [via |-> "provider", params |-> params, now |-> clock,
                       raw_offers |-> ConsumedOffers(r.calls, up)]
            /\ res' = [kind |-> IF r.outcome = "ok" THEN "result" ELSE "raised",
                       status |-> r.status,
                       exc |-> CASE r.outcome = "ok" -> "none"
                                 [] r.outcome = "provider_error" -> "ProviderError"
                                 [] OTHER -> "ValueError",
                       result |-> r.result]
    /\ nreq' = nreq + 1
    /\ UNCHANGED <<settings, viewCache, nticks, placesLog>>

\* a client POSTs raw to /flights/search
Post(R, U) ==
    /\ nreq < MaxRequests
    /\ \E raw \in R, up \in U :
        \E r \in {FlightSearchViewPost(raw, settings, clock, clock + CallTicks,
                                       viewCache, respCache, curveCache, up)} :
            /\ clock' = IF r.calls = <<>> THEN clock ELSE clock + CallTicks
            /\ viewCache' = r.vc
            /\ respCache' = r.rc
            /\ curveCache' = r.cc
            /\ calls' = r.calls
            /\ req' = [via |-> "view", params |-> raw, now |-> clock,
                       raw_offers |-> ConsumedOffers(r.calls, up)]
            /\ res' = [kind |-> r.kind, status |-> r.status, exc |-> r.exc,
                       result |-> r.result]
    /\ nreq' = nreq + 1
    /\ UNCHANGED <<settings, nticks, placesLog>>

\* time passes between requests
TickSteps == {1, RESPONSE_CACHE_TTL * TicksPerSecond + 1}
Tick ==
    /\ nticks < MaxTicks
    /\ \E d \in TickSteps : clock' = clock + d
    /\ nticks' = nticks + 1
    /\ UNCHANGED <<settings, respCache, curveCache, viewCache, req, res, calls, nreq,
                   placesLog>>

\* Deployments: the provider configured with and without its API key, and two
\* deployments that name a provider the code does not serve
Configs ==
    [apiKey : {TRUE}, provider : {NoneStr}]
        \cup [apiKey : {FALSE}, provider : {NoneStr, "flights-sky", "amadeus", "expedia"}]

InitWith(C) ==
    /\ clock = StartClock
    /\ settings \in C
    /\ respCache = EmptyCache
    /\ curveCache = EmptyCache
    /\ viewCache = EmptyCache
    /\ req = NoRequest
    /\ res = NoResponse
    /\ calls = <<>>
    /\ nreq = 0
    /\ nticks = 0
    /\ placesLog = <<>>

\* Inputs of Spec: two filter settings, with and without the bypass flag
DirectFlight == RawOffer(11, PNum(2), <<"AF">>, 1)
LaterFlight == RawOffer(12, PNum(1), <<"BA">>, 2)
DearFlight == RawOffer(14, PNum(3), <<"BA">>, 1)
BadPriceFlight == RawOffer(13, PStr(<<"1", ".", "2", ".", "3">>), <<"AF">>, 1)

SpecParams == {[BaseParams EXCEPT !.bypassCache = b] : b \in BOOLEAN}
SpecRaws ==
    {BaseParams,
     [BaseParams EXCEPT !.allowedAirlines = Some(<<"AF,BA">>)],
     [BaseParams EXCEPT !.allowedAirlines = Some(<<"AF", "BA">>)]}

NoFlights == [status |-> TRUE, data |-> ListData(<<>>)]
GraphDown == Http(TRUE, 0, FALSE, [data |-> <<>>])
EverywhereDown == Http(FALSE, 503, TRUE, [results |-> <<>>])
NoQuotes == EverywhereOk(<<>>)

SpecListFailures ==
    HttpFailures(NoFlights)
        \cup {Http(FALSE, 200, TRUE, [status |-> FALSE, data |-> ListData(<<>>)]),
              ListOk(<<BadPriceFlight>>)}
SpecListResponses == {ListOk(<<DirectFlight>>)}
ThreeFlights == ListOk(<<LaterFlight, DearFlight, DirectFlight>>)
SpecGraphResponses ==
    {GraphDown,
     GraphOk(<<GraphItem(2, PNum(3)), GraphItem(1, PNum(2)), GraphItem(2, PNum(1))>>)}
SpecEverywhereResponses ==
    {EverywhereDown,
     EverywhereOk(<<Quote(1, PNum(2), PNone)>>),
     EverywhereOk(<<Quote(1, PNone, PStr(<<"R", "s", ".", "1", ".", "5">>))>>)}
\* what the upstream may answer to the calls of one request
SpecUpstream ==
    [list : SpecListFailures, graph : {GraphDown}, everywhere : {EverywhereDown}]
        \cup [list : SpecListResponses, graph : SpecGraphResponses,
              everywhere : SpecEverywhereResponses]
        \cup [list : {ThreeFlights}, graph : {GraphDown}, everywhere : {EverywhereDown}]
        \cup [list : SpecListResponses, graph : {GraphDown}, everywhere : {NoQuotes}]

Init == InitWith(Configs)
Next ==
    \/ SearchFlights(SpecParams, SpecUpstream)
    \/ Post(SpecRaws, SpecUpstream)
    \/ Tick
Spec == Init /\ [][Next]_vars


----------------------------------------------------------------------------
(* The offer pipeline on its own: one search, over a range of upstream lists, *)
(* filters, sort keys and limits, from empty caches                           *)

\* the airlines of a record's segments, and its day of departure
OfferShapes ==
    {<< <<>>, 1 >>, << <<"AF">>, 1 >>, << <<"AF">>, 2 >>, << <<NoneStr>>, 1 >>,
     << <<"AF", "BA">>, 2 >>, << <<"BA", "AF", "BA">>, 1 >>}
\* every shape at the price 1, two of them at the price MaxPrice too
DearShapes == {<< <<"AF">>, 1 >>, << <<"AF", "BA">>, 2 >>}
OfferRecords ==
    {RawOffer(0, PNum(1), sh[1], sh[2]) : sh \in OfferShapes}
        \cup {RawOffer(0, PNum(MaxPrice), sh[1], sh[2]) : sh \in DearShapes}
\* the lists of up to MaxOffers records, and one list of three flights on two
\* dates
\* a record whose vendor gives its own total duration, longer than its one
\* segment's (a ground stop counted in)
TimedFlight == [RawOffer(15, PNum(1), <<"AF">>, 1) EXCEPT !.durationMinutes = Some(90)]
OfferLists ==
    BoundedSeqs(OfferRecords, MaxOffers)
        \cup {<<LaterFlight, DearFlight, DirectFlight>>, <<TimedFlight>>}

OfferParams ==
    {[BaseParams EXCEPT !.maxStops = ms, !.allowedAirlines = al,
                        !.sort = sl[1], !.limit = sl[2]] :
        ms \in {None, Some(0), Some(1)},
        al \in {None, Some(<<>>), Some(<<"af", "">>), Some(<<"AF", "BA">>)},
        sl \in {<<NoneStr, None>>, <<"least_stops", Some(1)>>, <<"as_listed", NotAnInt>>,
                <<"as_listed", Some(0)>>, <<"as_listed", Some(MAX_LIMIT + 1)>>,
                <<"cheapest", None>>, <<"shortest", None>>, <<"least_stops", None>>}}

OfferUpstream ==
    {[list |-> ListOk(l), graph |-> GraphDown, everywhere |-> EverywhereDown] :
        l \in OfferLists}

OffersInit == InitWith({[apiKey |-> TRUE, provider |-> NoneStr]})
OffersNext == nreq = 0 /\ SearchFlights(OfferParams, OfferUpstream)
SpecOffers == OffersInit /\ [][OffersNext]_vars


----------------------------------------------------------------------------
(* Properties of the offer pipeline, checked under SpecOffers *)

\* the last request was answered with a result computed from the upstream list
Computed == res.kind = "result" /\ calls # <<>>

\* the filters a request asks for
AsksMaxStops(params) == ~IsNone(params.maxStops) \/ ~IsNone(params.max_stops)
AskedMaxStops(params) ==
    IF ~IsNone(params.maxStops) THEN Val(params.maxStops) ELSE Val(params.max_stops)
AskedAirlines(params) ==
    LET given == IF ~IsNone(params.allowedAirlines) THEN params.allowedAirlines
                 ELSE params.allowed_airlines
    IN  IF IsNone(given) THEN {}
        ELSE {Upper(c) : c \in Range(Val(given))} \ {""}
AsksAirlines(params) == AskedAirlines(params) # {}

\* C3: meta describes exactly the returned offers: the price range is theirs
\* (null when there are none), each offer is counted in the bucket of its stops
\* and the buckets sum to the number of offers, and the airlines are theirs.
C3_MetaDescribesOffers ==
    Computed =>
        LET L == res.result.offers
            m == res.result.meta
            prices == {L[i].price.total : i \in 1..Len(L)}
            n(S) == Cardinality({i \in 1..Len(L) : L[i].stops \in S})
        IN  /\ L = <<>> => IsNone(m.minPrice) /\ IsNone(m.maxPrice)
            /\ L # <<>> =>
                /\ ~IsNone(m.minPrice) /\ ~IsNone(m.maxPrice)
                /\ Val(m.minPrice) \in prices /\ \A q \in prices : Val(m.minPrice) <= q
                /\ Val(m.maxPrice) \in prices /\ \A q \in prices : Val(m.maxPrice) >= q
            /\ m.stopsCounts.zero = n({0})
            /\ m.stopsCounts.one = n({1})
            /\ m.stopsCounts.twoPlus = n(2..(MaxOffers + 8))
            /\ m.stopsCounts.zero + m.stopsCounts.one + m.stopsCounts.twoPlus = Len(L)
            /\ m.airlines = {a \in {"AF", "BA", "af", "ba", NoneStr, ""} :
                                \E i \in 1..Len(L) : a \in L[i].airlines}

\* a result cut by the limit whose only offer is dearer than one left out
C3_Witness ==
    /\ Computed
    /\ Len(res.result.offers) = 1 /\ Len(req.raw_offers) = 2
    /\ res.result.meta.minPrice = Some(2 * PriceScale)
    /\ res.result.meta.stopsCounts.one = 1
    /\ \E i \in 1..2 : req.raw_offers[i].price = PNum(1) /\ Len(req.raw_offers[i].segments) = 1

\* C8: a returned offer of k segments has max(0, k - 1) stops, and with a
\* stop or airline filter active no returned offer has zero segments.
C8_StopsFromSegments ==
    Computed =>
        \A i \in 1..Len(res.result.offers) :
            LET o == res.result.offers[i]
                k == Len(o.segments)
            IN  /\ o.stops = (IF k >= 1 THEN k - 1 ELSE 0)
                /\ (AsksMaxStops(req.params) \/ AsksAirlines(req.params)) => k > 0

\* with a stop filter active the upstream listed a record without segments
\* and a two-segment record, and only the latter was returned, with one stop
C8_Witness ==
    /\ Computed
    /\ AsksMaxStops(req.params)
    /\ Len(req.raw_offers) = 2
    /\ \E i \in 1..2 : RawSegments(req.raw_offers[i]) = <<>>
    /\ Len(res.result.offers) = 1
    /\ res.result.offers[1].stops = 1
    /\ Len(res.result.offers[1].segments) = 2


\* the offers of the upstream records the last request read, before dedupe
NormalizedOffers ==
    NormalizeOffers(req.raw_offers,
                    [origin |-> req.params.origin, destination |-> req.params.destination,
                     currency |-> EffCurrency(req.params)],
                    EffMaxStops(req.params), EffAllowedAirlines(req.params)).offers

\* what makes two offers duplicates
SameItinerary(a, b) ==
    /\ a.price.total = b.price.total /\ a.stops = b.stops
    /\ a.departAt = b.departAt /\ a.arriveAt = b.arriveAt
    /\ Len(a.segments) = Len(b.segments)
    /\ \A i \in 1..Len(a.segments) :
        /\ a.segments[i].from = b.segments[i].from /\ a.segments[i].to = b.segments[i].to
        /\ a.segments[i].departAt = b.segments[i].departAt
        /\ a.segments[i].arriveAt = b.segments[i].arriveAt
        /\ a.segments[i].airline = b.segments[i].airline

\* C9: _dedupe_offers returns no two duplicates; each offer it returns is the
\* first of its duplicates in the input, the offers keep their relative order,
\* and every input offer has a duplicate (or itself) in the output.  The
\* offers a search returns hold no two duplicates either.
C9_Dedupe ==
    Computed =>
        LET in == NormalizedOffers
            out == _dedupe_offers(in)
            at(o) == CHOOSE i \in 1..Len(in) : in[i].id = o.id
            L == res.result.offers
        IN  /\ \A i, j \in 1..Len(out) : i # j => ~SameItinerary(out[i], out[j])
            /\ \A k \in 1..Len(out) :
                /\ \E i \in 1..Len(in) : in[i] = out[k]
                /\ \A j \in 1..Len(in) : SameItinerary(in[j], out[k]) => at(out[k]) <= j
            /\ \A k, l \in 1..Len(out) : k < l => at(out[k]) < at(out[l])
            /\ \A i \in 1..Len(in) : \E k \in 1..Len(out) : SameItinerary(in[i], out[k])
            /\ \A i, j \in 1..Len(L) : i # j => ~SameItinerary(L[i], L[j])

\* the upstream listed the same itinerary twice and one offer was returned,
\* the one of the first record
C9_Witness ==
    /\ Computed
    /\ Len(NormalizedOffers) = 2
    /\ SameItinerary(NormalizedOffers[1], NormalizedOffers[2])
    /\ NormalizedOffers[1].id # NormalizedOffers[2].id
    /\ Len(res.result.offers) = 1
    /\ res.result.offers[1].id = NormalizedOffers[1].id

\* a raw record meets the filters of a request
RawStops(raw) == Len(RawSegments(raw)) - 1
RawAirlines(raw) ==
    {a \in {"AF", "BA", "af", "ba"} :
        \E i \in 1..Len(RawSegments(raw)) : RawSegments(raw)[i].airline = a}
MeetsFilters(raw, params) ==
    /\ RawSegments(raw) # <<>>
    /\ AsksMaxStops(params) => RawStops(raw) <= AskedMaxStops(params)
    /\ AsksAirlines(params) =>
        RawAirlines(raw) # {} /\ RawAirlines(raw) \subseteq AskedAirlines(params)

\* an offer is the offer of a raw record
OfferOf(o, raw) ==
    /\ o.price.total = raw.price.num
    /\ Len(o.segments) = Len(RawSegments(raw))
    /\ \A i \in 1..Len(o.segments) :
        /\ o.segments[i].airline = RawSegments(raw)[i].airline
        /\ o.segments[i].departAt.date = RawSegments(raw)[i].departureDate

\* C10: with maxStops given every returned offer has at most that many stops
\* (so when every listed record has a stop and maxStops is 0, nothing is
\* returned and the histogram is all zero); with allowedAirlines naming at
\* least one code every returned offer has airlines, all of them named; and a
\* listed record with segments that meets the filters is among the offers when
\* the limit cuts nothing.
C10_Filter ==
    Computed =>
        LET L == res.result.offers
            p == req.params
            raws == req.raw_offers
        IN  /\ AsksMaxStops(p) => \A i \in 1..Len(L) : L[i].stops <= AskedMaxStops(p)
            /\ (AsksMaxStops(p) /\ AskedMaxStops(p) = 0
                    /\ \A i \in 1..Len(raws) : Len(RawSegments(raws[i])) >= 2)
                => /\ L = <<>>
                   /\ res.result.meta.stopsCounts = [zero |-> 0, one |-> 0, twoPlus |-> 0]
            /\ AsksAirlines(p) =>
                \A i \in 1..Len(L) :
                    L[i].airlines # {} /\ L[i].airlines \subseteq AskedAirlines(p)
            /\ Len(L) < EffLimit(p) =>
                \A i \in 1..Len(raws) :
                    MeetsFilters(raws[i], p) => \E k \in 1..Len(L) : OfferOf(L[k], raws[i])

\* both filters active: of a listed AF flight and a listed AF + BA connection
\* only the first is returned
C10_Witness ==
    /\ Computed
    /\ AsksMaxStops(req.params) /\ AskedMaxStops(req.params) = 1
    /\ AskedAirlines(req.params) = {"AF"}
    /\ Len(req.raw_offers) = 2
    /\ \E i \in 1..2 : Len(req.raw_offers[i].segments) = 2
    /\ Len(res.result.offers) = 1
    /\ res.result.offers[1].airlines = {"AF"}


----------------------------------------------------------------------------
(* Properties of the caches and of the error paths, checked under Spec *)

\* the last request was a call of search_flights that returned a result
Returned == req.via = "provider" /\ res.kind = "result"

\* the last request was answered without a call of the list endpoint
NoListCall == \A i \in 1..Len(calls) : calls[i].ep # "list"

\* the time at which the last request ended
EndOfRequest == IF calls = <<>> THEN req.now ELSE req.now + CallTicks

\* C1: a search with the bypass flag calls the list endpoint whatever the
\* response cache holds, and stores its result: the same search issued right
\* after it without the flag is a response-cache hit, with no upstream call.
C1_BypassStillWrites ==
    [][/\ (nreq' = nreq + 1 /\ req'.via = "provider" /\ req'.params.bypassCache
                /\ settings.apiKey)
            => (calls' # <<>> /\ calls'[1].ep = "list")
       /\ (/\ Returned /\ req.params.bypassCache /\ clock = EndOfRequest
           /\ nreq' = nreq + 1 /\ req'.via = "provider" /\ ~req'.params.bypassCache
           /\ _cache_key(req'.params) = _cache_key(req.params))
            => (calls' = <<>> /\ res'.kind = "result" /\ res'.result.meta.cached)]_vars

\* C2: a POST to the view always ends in a Response: no exception leaves
\* FlightSearchView.post, and the response of a request whose list call got an
\* upstream status >= 400 carries that status.
C2_NoExceptionEscapesView ==
    req.via = "view" =>
        /\ res.kind = "response"
        /\ (calls # <<>> /\ calls[1].outcome = "http_error") => res.status = calls[1].status

\* the offers search_flights makes of the records the last request read
ExpectedOffers ==
    Take(_sort_offers(_dedupe_offers(NormalizedOffers), EffSort(req.params)),
         EffLimit(req.params))

\* C4: a request that reached a price-history sub-fetch (the price-graph call
\* or the quote-fallback call), whatever that call answered, ends with a
\* result holding the offers of the list fetch; when the price-graph call
\* failed and the offers give no curve, the quote fallback was tried.
C4_PriceHistoryNeverFails ==
    (req.via = "provider" /\ \E i \in 1..Len(calls) : calls[i].ep \in {"graph", "everywhere"})
        => /\ res.kind = "result"
           /\ res.result.offers = ExpectedOffers
           /\ (\E i \in 1..Len(calls) : calls[i].ep = "graph" /\ calls[i].outcome # "ok")
                => \E i \in 1..Len(calls) : calls[i].ep = "everywhere"

\* the list call of the last search_flights failed
ListCallFailed ==
    /\ req.via = "provider"
    /\ calls # <<>> /\ calls[1].ep = "list"
    /\ (calls[1].outcome # "ok" \/ ~calls[1].payloadStatus)

\* C5: when the list call fails search_flights raises a ProviderError and
\* returns nothing, after that one call: with status 502 for a transport
\* failure, the upstream's status for a status >= 400, 502 for a body that is
\* not JSON, and 502 for a payload whose status is false.
C5_ListFailureStatus ==
    ListCallFailed =>
        /\ res.kind = "raised" /\ res.exc = "ProviderError" /\ res.result = NoResult
        /\ Len(calls) = 1
        /\ res.status = CASE calls[1].status = 0 -> 502
                          [] calls[1].status >= 400 -> calls[1].status
                          [] OTHER -> 502

\* the upstream answered the list call with status 429, and search_flights
\* raised a ProviderError with status 429
C5_Witness ==
    /\ ListCallFailed
    /\ calls[1].status = 429
    /\ res.kind = "raised" /\ res.status = 429

\* the response-cache entry of the last request, and the time it was written
StoredEntry == respCache[_cache_key(req.params)]
WrittenAt == StoredEntry.expires - RESPONSE_CACHE_TTL * TicksPerSecond

\* C6: a response-cache hit returns the stored payload with cached = true,
\* cacheAgeSeconds = the whole seconds between the write of the entry and the
\* read, and cacheTtlSeconds = 300.
C6_CacheRoundTrip ==
    (Returned /\ calls = <<>>) =>
        /\ res.result.meta.cacheAgeSeconds # None
        /\ Val(res.result.meta.cacheAgeSeconds) >= 0
        /\ res.result =
            [StoredEntry.value.payload EXCEPT
                !.meta.cached = TRUE,
                !.meta.cacheAgeSeconds = Some(WholeSeconds(req.now - WrittenAt)),
                !.meta.cacheTtlSeconds = Some(300)]

\* the last request was answered with a search result
Served ==
    \/ Returned
    \/ req.via = "view" /\ res.kind = "response" /\ res.status = 200

\* C7: a result served without a call of the list endpoint says cached = true
\* and gives a cache age; a result that says cached = false comes with a list
\* call made by the request.
C7_StalenessSurfaced ==
    Served =>
        /\ NoListCall =>
            res.result.meta.cached /\ res.result.meta.cacheAgeSeconds # None
        /\ ~res.result.meta.cached => ~NoListCall


----------------------------------------------------------------------------
(* Sort and limit, checked under SpecOffers *)

\* the offers before the sort: normalized, filtered and deduped
DedupedOffers == _dedupe_offers(NormalizedOffers)

\* the place of an offer in the list before the sort
PlaceBefore(o) == CHOOSE i \in 1..Len(DedupedOffers) : DedupedOffers[i].id = o.id

\* the offers L are ascending in the key, ties in their order before the sort
AscendingStable(L, key(_)) ==
    \A k, l \in 1..Len(L) :
        k < l => /\ key(L[k]) <= key(L[l])
                 /\ key(L[k]) = key(L[l]) => PlaceBefore(L[k]) < PlaceBefore(L[l])

\* C11: the returned offers are in ascending price for sort = cheapest, in
\* ascending duration for shortest, in ascending stops for least_stops, ties in
\* their prior order; with another sort key, or none, they are in the order
\* the upstream and dedupe gave them.
C11_Sort ==
    Computed =>
        LET L == res.result.offers
            byPrice(o) == o.price.total
            byDuration(o) == o.durationMinutes
            byStops(o) == o.stops
            asListed(o) == 0
        IN  CASE req.params.sort = "cheapest" -> AscendingStable(L, byPrice)
              [] req.params.sort = "shortest" -> AscendingStable(L, byDuration)
              [] req.params.sort = "least_stops" -> AscendingStable(L, byStops)
              [] OTHER -> AscendingStable(L, asListed)


\* the deduped, filtered, sorted list of the last search
SortedOffers == _sort_offers(DedupedOffers, EffSort(req.params))

\* the limit a request asks for, as the interface states it
AskedLimit(params) ==
    IF IsNone(params.limit) \/ params.limit = NotAnInt THEN 50
    ELSE IF Val(params.limit) < 1 THEN 1
    ELSE IF Val(params.limit) > 100 THEN 100
    ELSE Val(params.limit)

----------------------------------------------------------------------------
(* The helper functions on their own: each action applies one function to an *)
(* input drawn from a bounded set and records the input and the value        *)

Apply(fn, args, value) ==
    /\ nreq = 0
    /\ nreq' = 1
    /\ req' = [via |-> fn, args |-> args]
    /\ res' = [kind |-> "value", value |-> value]
    /\ UNCHANGED <<clock, settings, respCache, curveCache, viewCache, calls, nticks,
                   placesLog>>

\* the last step applied fn
Applied(fn) == nreq = 1 /\ req.via = fn

\* price curves: one point for each day of a set of days
CurveOn(days) == LowestPerDate({<<d, PriceScale>> : d \in days})
Curves == {CurveOn(days) : days \in {D \in SUBSET (1..MaxDate) : Cardinality(D) <= MaxPoints}}

ShouldOverrideCurve ==
    \E offers_curve \in Curves, existing_curve \in Curves :
        Apply("_should_override_curve", <<offers_curve, existing_curve>>,
              _should_override_curve(offers_curve, existing_curve))

\* JSON values where a price is expected: null, numbers, objects, and the
\* strings of digits, dots and currency signs
PriceValues ==
    {PNone, PObj} \cup {PNum(n) : n \in 0..MaxPrice}
        \cup {PStr(str) : str \in BoundedSeqs({"1", ".", "$"}, MaxChars)}

ParsePrice ==
    \E value \in PriceValues : Apply("_parse_price", value, _parse_price(value))

\* dates and times of day as the upstream sends them: the date 0 is a missing
\* date, the time <<>> a missing or empty time
IsoDates == 0..2
TNull == <<"n", "u", "l", "l">>
TNull05 == <<"n", "u", "l", "l", ":", "0", "5">>
IsoTimes ==
    {<<>>, T1030, T1845, TNull, TNull05,
     <<"N", "U", "L", "L">>, <<"N", "u", "l", "l", ":", "5", "0">>,
     <<" ", "1", "0", ":", "3", "0", " ">>, <<" ">>,
     <<"1", "0", "3", "0">>, <<"1", "0", ":", "3">>, <<"a", "b", ":", "c", "d">>,
     <<"1", "0", ".", "3", "0">>, <<"1", "0", ":", "3", "0", ":", "0">>,
     <<"1", "0", ":", "3", "0", ":", "0", "x">>, <<"1", "0", ":", "3", "0", "-", "0", "0">>,
     <<"n", "u", "l", "l", ":", "5">>, <<"n", "u", "l", "l", ":", "5", "x">>,
     <<"n", "u", "l", "l", ":", "0", "5", "0">>, <<"n", "i", "l", "l", ":", "0", "5">>}

IsoDt == \E d \in IsoDates, t \in IsoTimes : Apply("_iso_dt", <<d, t>>, _iso_dt(d, t))

FunctionsInit == InitWith({[apiKey |-> TRUE, provider |-> NoneStr]})
FunctionsNext ==
    \/ ShouldOverrideCurve
    \/ ParsePrice
    \/ IsoDt
SpecFunctions == FunctionsInit /\ [][FunctionsNext]_vars

\* the date range of a curve: its greatest date minus its least
DateRange(curve) ==
    IF curve = <<>> THEN 0
    ELSE SetMax({curve[i].date : i \in 1..Len(curve)})
            - SetMin({curve[i].date : i \in 1..Len(curve)})

\* C13: _should_override_curve(offers_curve, existing) is true exactly when
\* offers_curve has at least 2 points and existing is empty, or offers_curve
\* has at least 5 points, or offers_curve is longer than existing and spans a
\* strictly wider date range.
C13_OverrideRule ==
    Applied("_should_override_curve") =>
        LET oc == req.args[1]
            ex == req.args[2]
        IN  res.value <=>
                /\ Len(oc) >= 2
                /\ \/ ex = <<>>
                   \/ Len(oc) >= 5
                   \/ Len(oc) > Len(ex) /\ DateRange(oc) > DateRange(ex)

\* a 2-point offer curve spanning 3 days overrode a 1-point curve
C13_Witness ==
    /\ Applied("_should_override_curve")
    /\ Len(req.args[1]) = 2 /\ DateRange(req.args[1]) = 3
    /\ Len(req.args[2]) = 1
    /\ res.value


----------------------------------------------------------------------------
(* The price history, checked under Spec *)

\* the call of an endpoint made by the last request, when it succeeded
Fetched(ep) == {i \in 1..Len(calls) : calls[i].ep = ep /\ calls[i].outcome = "ok"}
BodyOf(ep) == calls[CHOOSE i \in Fetched(ep) : TRUE].body

\* the <<date, price>> pairs each source supplied to the last request
GraphPoints ==
    {<<it.departureDate, it.price.num>> :
        it \in {x \in Range(BodyOf("graph").data) : x.departureDate # 0 /\ x.price.kind = "num"}}
QuotePoints ==
    {<<q.localDepartureDate,
       IF q.rawPrice.kind = "num" THEN q.rawPrice.num ELSE _parse_price(q.price).v>> :
        q \in {x \in Range(BodyOf("everywhere").results) : x.localDepartureDate # 0}}
OfferPoints ==
    {<<o.segments[1].departAt.date, o.price.total>> :
        o \in {x \in Range(SortedOffers) : x.segments # <<>>}}
CachedPoints ==
    {<<pt.date, pt.price>> :
        pt \in Range(curveCache[_google_curve_cache_key(req.params)].value.data)}

SuppliedPoints ==
    CASE res.result.meta.priceHistorySource = "offers" -> OfferPoints
      [] res.result.meta.priceHistorySource = "search_everywhere" -> QuotePoints
      [] res.result.meta.priceHistorySource = "google_price_graph" ->
            IF Fetched("graph") # {} THEN GraphPoints ELSE CachedPoints
      [] OTHER -> {}

\* C14: the price history of a computed result is in ascending date order
\* with one point for each date, the lowest price its source supplied for
\* that date; so are the series kept in the curve cache.
C14_PriceHistoryOrdered ==
    /\ (Returned /\ calls # <<>>) =>
        LET ph == res.result.meta.priceHistory
        IN  /\ \A i, j \in 1..Len(ph) : i < j => ph[i].date < ph[j].date
            /\ {ph[i].date : i \in 1..Len(ph)} = {pt[1] : pt \in SuppliedPoints}
            /\ \A i \in 1..Len(ph) :
                ph[i].price = SetMin({pt[2] : pt \in {q \in SuppliedPoints : q[1] = ph[i].date}})
    /\ \A k \in DOMAIN curveCache :
        LET data == curveCache[k].value.data
        IN  \A i, j \in 1..Len(data) : i < j => data[i].date < data[j].date

\* the price graph listed two prices for one date and the history keeps the
\* lower, after the point of an earlier date listed later
C14_Witness ==
    /\ Returned /\ calls # <<>>
    /\ res.result.meta.priceHistorySource = "google_price_graph"
    /\ Fetched("graph") # {}
    /\ Cardinality(GraphPoints) > Len(res.result.meta.priceHistory)
    /\ Len(res.result.meta.priceHistory) = 2


\* what is left of a price string is no number: it is empty, or has no digit,
\* or has several dots
NotANumber(cleaned) ==
    \/ cleaned = <<>>
    \/ \A i \in 1..Len(cleaned) : cleaned[i] = "."
    \/ Cardinality({i \in 1..Len(cleaned) : cleaned[i] = "."}) > 1

\* C15: _parse_price raises on no input: it returns 0 for null, the number
\* for a number, and 0 for a string that, once everything but digits and dots
\* is removed, is empty, only dots, or has several dots.
C15_ParsePriceTotal ==
    Applied("_parse_price") =>
        /\ res.value.ok
        /\ req.args.kind = "none" => res.value.v = 0
        /\ req.args.kind = "num" => res.value.v = req.args.num
        /\ (req.args.kind = "str"
                /\ NotANumber(SelectSeq(req.args.str, LAMBDA c : c \in {"1", "."})))
            => res.value.v = 0


----------------------------------------------------------------------------
(* The cache keys, checked under Spec *)

\* the query and filter fields of a request, as the provider receives them
ForwardedParams(r) == IF r.via = "view" THEN NormalizedParams(r.params) ELSE r.params
QueryTuple(p) ==
    <<p.origin, p.destination, p.departDate, p.returnDate, p.adults, p.cabin,
      p.currency, p.sort, p.limit, p.maxStops, p.allowedAirlines>>

\* C16: of two successive searches whose tuples differ, from empty caches, the
\* second is not answered from a cache: their provider keys differ, their view
\* keys differ, and the second result comes with a list call.
C16_KeysSeparateTuples ==
    [][(/\ nreq = 1 /\ nreq' = 2
        /\ QueryTuple(ForwardedParams(req)) # QueryTuple(ForwardedParams(req')))
        => /\ _cache_key(ForwardedParams(req)) # _cache_key(ForwardedParams(req'))
           /\ ViewCacheKey(ForwardedParams(req)) # ViewCacheKey(ForwardedParams(req'))
           /\ (res'.kind = "result" \/ (res'.kind = "response" /\ res'.status = 200))
                => calls' # <<>>]_vars

----------------------------------------------------------------------------
(* The API key, checked under SpecKey: searches through the provider while the
   deployment gains and loses its key; the caches outlive the setting *)

\* SKY_SCRAPER_API_KEY is read from the settings at each call: between two
\* calls the setting is given another value
Reconfigure ==
    /\ settings' = [settings EXCEPT !.apiKey = ~settings.apiKey]
    /\ UNCHANGED <<clock, respCache, curveCache, viewCache, req, res, calls, nreq, nticks,
                   placesLog>>

KeyInit == InitWith({[apiKey |-> TRUE, provider |-> NoneStr]})
KeyNext ==
    \/ SearchFlights(SpecParams, SpecUpstream)
    \/ Reconfigure
SpecKey == KeyInit /\ [][KeyNext]_vars

\* C17: a search made while no API key is configured raises a ProviderError of
\* status 500, calls the upstream not once, and leaves every cache as it was,
\* whatever the caches hold.
C17_MissingKeyFirst ==
    [][(nreq' = nreq + 1 /\ ~settings.apiKey)
        => /\ res'.kind = "raised" /\ res'.exc = "ProviderError"
           /\ res'.status = MissingKeyCode /\ MissingKeyCode = 500
           /\ calls' = <<>>
           /\ respCache' = respCache /\ curveCache' = curveCache
           /\ viewCache' = viewCache]_vars

\* a search without the key, for a query whose result the response cache holds
C17_Witness ==
    /\ nreq = 2 /\ ~settings.apiKey /\ ~req.params.bypassCache
    /\ ~IsNone(CacheGet(respCache, _cache_key(req.params), req.now))
    /\ res.kind = "raised" /\ res.status = MissingKeyCode /\ calls = <<>>

----------------------------------------------------------------------------
(* Airport autocomplete: views_places.py *)

PLACES_DEFAULT_LIMIT == 8
PLACES_MAX_LIMIT == 12
PLACES_RESULTS_TTL == 60 * 60
DATASET_CACHE_TTL == 60 * 60 * 24

\* the cache keys "places:airports:dataset" and "places:airports:<query>:<limit>"
DATASET_CACHE_KEY == <<"places:airports:dataset", <<>>, 0>>
PlacesCacheKey(query, limit) == <<"places:airports", LowerSeq(query), limit>>

\* a or b, of two strings; the empty string stands for a missing field too
OrStr(a, b) == IF a # <<>> THEN a ELSE b

\* an airport of the dataset; strings are sequences of characters
Airport(iata, icao, city, name, country) ==
    [iata |-> iata, iataCode |-> <<>>, icao |-> icao, icaoCode |-> <<>>, city |-> city,
     name |-> name, airportName |-> <<>>, country |-> country]

\* " - ".join(parts), "-" standing for the dash of the source
RECURSIVE JoinParts(_)
JoinParts(parts) ==
    IF parts = <<>> THEN <<>>
    ELSE IF Len(parts) = 1 THEN parts[1]
    ELSE parts[1] \o <<" ", "-", " ">> \o JoinParts(Tail(parts))

PlaceLabel(label, code) ==
    IF code = <<>> THEN label
    ELSE IF label # <<>> THEN label \o <<" ", "(">> \o code \o <<")">>
    ELSE code

NormalizedPlace(code, city, country, airport_name) ==
    IF code = <<>> /\ city = <<>> /\ airport_name = <<>> THEN None
    ELSE Some([code |-> code,
               label |-> PlaceLabel(JoinParts(SelectSeq(<<city, airport_name, country>>,
                                                        LAMBDA part : part # <<>>)),
                                    code),
               city |-> city, country |-> country, airportName |-> airport_name])

\* _normalize_result(item): None, or Some(result)
_normalize_result(item) ==
    NormalizedPlace(OrStr(OrStr(OrStr(item.iata, item.iataCode), item.icao), item.icaoCode),
                    item.city, item.country, OrStr(item.name, item.airportName))

\* q in s, for a q that is not empty
IsSubstring(q, s) == \E i \in 0..(Len(s) - Len(q)) : SubSeq(s, i + 1, i + Len(q)) = q

PlaceMatches(query_lower, item) ==
    \/ IsSubstring(query_lower, LowerSeq(item.iata))
    \/ IsSubstring(query_lower, LowerSeq(item.icao))
    \/ IsSubstring(query_lower, LowerSeq(item.city))
    \/ IsSubstring(query_lower, LowerSeq(item.name))
    \/ IsSubstring(query_lower, LowerSeq(item.country))

AppendPlace(results, normalized) ==
    IF IsNone(normalized) THEN results ELSE Append(results, Val(normalized))

\* the loop over the dataset, left when the results reach the limit
RECURSIVE SearchDataset(_, _, _, _)
SearchDatasetFound(dataset, query_lower, limit, results) ==
    IF Len(results) >= limit THEN results
    ELSE SearchDataset(Tail(dataset), query_lower, limit, results)
SearchDataset(dataset, query_lower, limit, results) ==
    IF dataset = <<>> THEN results
    ELSE IF PlaceMatches(query_lower, dataset[1])
         THEN SearchDatasetFound(dataset, query_lower, limit,
                                 AppendPlace(results, _normalize_result(dataset[1])))
    ELSE SearchDataset(Tail(dataset), query_lower, limit, results)

\* the upstream's answer to requests.get(AIRPORTS_DATA_URL): raises names the
\* exception requests.get raises ("none" when it returns), payload the JSON of
\* the body: an object or an array (kind), its values or items in order, each
\* one an object (dict) or not
DatasetResponse(raises, status, json, kind, values) ==
    [raises |-> raises, status |-> status, json |-> json,
     payload |-> [kind |-> kind, values |-> values]]
JsonObject(item) == [dict |-> TRUE, item |-> item]
JsonScalar == [dict |-> FALSE, item |-> Airport(<<>>, <<>>, <<>>, <<>>, <<>>)]

\* the airports of a payload
PayloadAirports(payload) ==
    IF payload.kind \in {"dict", "list"}
    THEN [i \in 1..Len(SelectSeq(payload.values, LAMBDA v : v.dict)) |->
            SelectSeq(payload.values, LAMBDA v : v.dict)[i].item]
    ELSE <<>>

\* what _load_airports_dataset leaves: exc "none" and the dataset, or the
\* exception raised; the cache; the fetches made
Loaded(exc, dataset, c, fetched) ==
    [exc |-> exc, dataset |-> dataset, cache |-> c, fetched |-> fetched]

\* the fetch without its cache.set
FetchDatasetUncached(c, now_ts, t, up) ==
    IF up.raises # "none" THEN Loaded(up.raises, <<>>, c, <<[at |-> now_ts, ok |-> FALSE]>>)
    ELSE IF up.status >= 400
         THEN Loaded("HTTPError", <<>>, c, <<[at |-> now_ts, ok |-> FALSE]>>)
    ELSE IF ~up.json
         THEN Loaded("JSONDecodeError", <<>>, c, <<[at |-> now_ts, ok |-> FALSE]>>)
    ELSE Loaded("none", PayloadAirports(up.payload), c, <<[at |-> now_ts, ok |-> TRUE]>>)

\* requests.get, raise_for_status, response.json(), and the cache.set
FetchDataset(c, now_ts, t, up) ==
    IF up.raises # "none" THEN Loaded(up.raises, <<>>, c, <<[at |-> now_ts, ok |-> FALSE]>>)
    ELSE IF up.status >= 400
         THEN Loaded("HTTPError", <<>>, c, <<[at |-> now_ts, ok |-> FALSE]>>)
    ELSE IF ~up.json
         THEN Loaded("JSONDecodeError", <<>>, c, <<[at |-> now_ts, ok |-> FALSE]>>)
    ELSE Loaded("none", PayloadAirports(up.payload),
                CacheSet(c, DATASET_CACHE_KEY, PayloadAirports(up.payload), t,
                         DATASET_CACHE_TTL),
                <<[at |-> now_ts, ok |-> TRUE]>>)

\* _load_airports_dataset() started at now_ts, the fetch answered at t
_load_airports_dataset(c, now_ts, t, up) ==
    IF ~IsNone(CacheGet(c, DATASET_CACHE_KEY, now_ts))
    THEN Loaded("none", Val(CacheGet(c, DATASET_CACHE_KEY, now_ts)), c, <<>>)
    ELSE FetchDataset(c, now_ts, t, up)

\* the exceptions places_autocomplete catches: requests.RequestException and
\* its subclasses, and ValueError and its subclasses
CaughtByPlaces == {"RequestException", "ConnectionError", "HTTPError", "JSONDecodeError"}

\* what places_autocomplete leaves: the response (or the exception that leaves
\* the view), the cache, the fetches made
PlacesAnswer(status, exc, query, results, error, c, fetched) ==
    [status |-> status, exc |-> exc, query |-> query, results |-> results,
     error |-> error, cache |-> c, fetched |-> fetched]

PlacesFound(query, cache_key, results, ld, at) ==
    PlacesAnswer(200, "none", query, results, FALSE,
                 CacheSet(ld.cache, cache_key, results, at, PLACES_RESULTS_TTL), ld.fetched)

PlacesLoaded(query, limit, cache_key, ld, now_ts, t) ==
    IF ld.exc \in CaughtByPlaces
    THEN PlacesAnswer(502, "none", query, <<>>, TRUE, ld.cache, ld.fetched)
    ELSE IF ld.exc # "none"
         THEN PlacesAnswer(500, ld.exc, query, <<>>, FALSE, ld.cache, ld.fetched)
    ELSE PlacesFound(query, cache_key,
                     SearchDataset(ld.dataset, LowerSeq(query), limit, <<>>), ld,
                     IF ld.fetched = <<>> THEN now_ts ELSE t)

PlacesLookup(query, limit, cache_key, cached, c, now_ts, t, up) ==
    IF ~IsNone(cached)
    THEN PlacesAnswer(200, "none", query, Val(cached), FALSE, c, <<>>)
    ELSE PlacesLoaded(query, limit, cache_key, _load_airports_dataset(c, now_ts, t, up),
                      now_ts, t)

\* the limit of a request: 8 when absent or no integer, within 1..12
PlacesLimit(raw_limit) ==
    Max(1, Min(IF IsNone(raw_limit) \/ raw_limit = NotAnInt THEN PLACES_DEFAULT_LIMIT
               ELSE Val(raw_limit),
               PLACES_MAX_LIMIT))

PlacesQuery(query, raw_limit, c, now_ts, t, up) ==
    IF Len(query) < 2 THEN PlacesAnswer(200, "none", query, <<>>, FALSE, c, <<>>)
    ELSE PlacesLookup(query, PlacesLimit(raw_limit),
                      PlacesCacheKey(query, PlacesLimit(raw_limit)),
                      CacheGet(c, PlacesCacheKey(query, PlacesLimit(raw_limit)), now_ts),
                      c, now_ts, t, up)

\* places_autocomplete for GET ?q=<q>&limit=<raw_limit>, started at now_ts, a
\* fetch of the dataset answered at t
places_autocomplete(q, raw_limit, c, now_ts, t, up) ==
    PlacesQuery(Strip(q), raw_limit, c, now_ts, t, up)

\* when the entry of key expires, 0 when there is none
EntryExpires(c, key) == IF key \in DOMAIN c THEN c[key].expires ELSE 0

\* a client GETs /api/places/autocomplete; the log keeps, of each request, the
\* query and limit of its cache key, its time, whether it was answered 200, its
\* results, its fetches of the dataset and the expiry of its results' entry
PlacesAutocomplete(R, U) ==
    /\ nreq < MaxRequests
    /\ \E rq \in R, up \in U :
        \E r \in {places_autocomplete(rq[1], rq[2], viewCache, clock, clock + CallTicks, up)} :
            /\ clock' = IF r.fetched = <<>> THEN clock ELSE clock + CallTicks
            /\ viewCache' = r.cache
            /\ calls' = r.fetched
            /\ req' = [via |-> "places", q |-> rq[1], limit |-> rq[2], now |-> clock]
            /\ res' = [kind |-> IF r.exc = "none" THEN "response" ELSE "raised",
                       status |-> r.status, exc |-> r.exc, query |-> r.query,
                       results |-> r.results, error |-> r.error]
            /\ placesLog' =
                Append(placesLog,
                       [query |-> LowerSeq(Strip(rq[1])), limit |-> PlacesLimit(rq[2]),
                        at |-> clock, ok |-> r.exc = "none" /\ r.status = 200,
                        results |-> r.results, fetched |-> r.fetched,
                        expires |-> EntryExpires(r.cache,
                                                 PlacesCacheKey(Strip(rq[1]),
                                                                PlacesLimit(rq[2])))])
    /\ nreq' = nreq + 1
    /\ UNCHANGED <<settings, respCache, curveCache, nticks>>

\* time passes between autocomplete requests
PlacesTickSteps ==
    {1, PLACES_RESULTS_TTL * TicksPerSecond, DATASET_CACHE_TTL * TicksPerSecond}
PlacesTick ==
    /\ nticks < MaxTicks
    /\ \E d \in PlacesTickSteps : clock' = clock + d
    /\ nticks' = nticks + 1
    /\ UNCHANGED <<settings, respCache, curveCache, viewCache, req, res, calls, nreq,
                   placesLog>>

\* Inputs of SpecPlaces
Nairobi ==
    Airport(<<"N", "B", "O">>, <<>>, <<"N", "a", "i", "r", "o", "b", "i">>, <<>>,
            <<"K", "E">>)
Nakuru ==
    Airport(<<"N", "U", "U">>, <<>>, <<"N", "a", "k", "u", "r", "u">>, <<>>, <<"K", "E">>)
CountryOnly == Airport(<<>>, <<>>, <<>>, <<>>, <<"K", "E">>)

PlacesRequests ==
    {<<<<"n">>, None>>,
     <<<<"n", "a", "i">>, None>>,
     <<<<" ", "N", "A", "I", " ">>, NotAnInt>>,
     <<<<"n", "a">>, Some(1)>>,
     <<<<"k", "e">>, Some(PLACES_MAX_LIMIT + 1)>>}

DatasetFailures ==
    {DatasetResponse("OSError", 0, FALSE, "none", <<>>),
     DatasetResponse("ConnectionError", 0, FALSE, "none", <<>>),
     DatasetResponse("none", 503, TRUE, "dict", <<>>),
     DatasetResponse("none", 200, FALSE, "none", <<>>)}
DatasetResponses ==
    DatasetFailures
        \cup {DatasetResponse("none", 200, TRUE, "dict",
                              <<JsonObject(Nairobi), JsonScalar, JsonObject(CountryOnly),
                                JsonObject(Nakuru)>>),
              DatasetResponse("none", 200, TRUE, "list", <<JsonObject(Nakuru), JsonScalar>>),
              DatasetResponse("none", 200, TRUE, "number", <<>>)}

PlacesInit == InitWith({[apiKey |-> TRUE, provider |-> NoneStr]})
PlacesNext ==
    \/ PlacesAutocomplete(PlacesRequests, DatasetResponses)
    \/ PlacesTick
SpecPlaces == PlacesInit /\ [][PlacesNext]_vars

----------------------------------------------------------------------------
(* Claims about the autocomplete, checked under SpecPlaces *)

\* the last request tried to fetch the dataset, in vain
LoadFailed == req.via = "places" /\ calls # <<>> /\ ~calls[1].ok

\* C18: when the dataset cannot be loaded (requests.get raises an OSError or a
\* request exception, the status is an error, the body is no JSON),
\* places_autocomplete answers 502 with no results and leaves the cache as it
\* was.
C18_LoadFailureIs502 ==
    [][(nreq' = nreq + 1 /\ LoadFailed')
        => /\ res'.kind = "response" /\ res'.status = 502
           /\ res'.results = <<>>
           /\ viewCache' = viewCache]_vars

\* requests i and j of the log have the same query, letter case aside, and
\* the same effective limit
SameSearch(i, j) ==
    /\ placesLog[i].query = placesLog[j].query
    /\ placesLog[i].limit = placesLog[j].limit

\* request j comes after the successful request i, asks the same, and comes
\* before the entry request i left or used expires (a query of less than two
\* characters is answered without an entry)
RepeatsBeforeExpiry(i, j) ==
    /\ i < j /\ placesLog[i].ok /\ SameSearch(i, j)
    /\ Len(placesLog[i].query) < 2 \/ placesLog[j].at < placesLog[i].expires

RepeatsAnswered ==
    \A i, j \in DOMAIN placesLog :
        RepeatsBeforeExpiry(i, j)
            => /\ placesLog[j].ok
               /\ placesLog[j].results = placesLog[i].results
               /\ placesLog[j].fetched = <<>>

FetchedIn(i) == placesLog[i].fetched # <<>>
DatasetTtlTicks == DATASET_CACHE_TTL * TicksPerSecond

\* stated as the claim states it: after a successful request, a later request
\* with the same query (letter case aside) and the same effective limit, made
\* before the entry expires, gets the same results with no fetch of the
\* dataset; and no two fetches of the dataset are less than the dataset TTL
\* apart.
C19_FetchedOncePerTtl ==
    /\ RepeatsAnswered
    /\ \A i, j \in DOMAIN placesLog :
        (i < j /\ FetchedIn(i) /\ FetchedIn(j))
            => placesLog[j].at >= placesLog[i].at + DatasetTtlTicks

\* C19 (amended): after a successful request, a later request with the same
\* query (letter case aside) and the same effective limit, made before the
\* entry expires, gets the same results with no fetch of the dataset; and once
\* a fetch of the dataset has succeeded, no fetch starts before the dataset
\* TTL has passed since its end.
C19_FetchedOnceAfterSuccess ==
    /\ RepeatsAnswered
    /\ \A i, j \in DOMAIN placesLog :
        (i < j /\ FetchedIn(i) /\ placesLog[i].fetched[1].ok /\ FetchedIn(j))
            => placesLog[j].at >= placesLog[i].at + CallTicks + DatasetTtlTicks

\* a request that fetched the dataset and found airports, then the same query
\* in other letter case with another raw limit of the same effect
C19_Witness ==
    /\ Len(placesLog) >= 2
    /\ RepeatsBeforeExpiry(1, 2)
    /\ FetchedIn(1) /\ placesLog[1].results # <<>>
    /\ req.via = "places" /\ Strip(req.q) # placesLog[1].query
    /\ req.limit = NotAnInt
    /\ res.results = placesLog[1].results /\ calls = <<>>

----------------------------------------------------------------------------
(* _iso_dt, checked under SpecFunctions *)

\* the shapes of a time of day, surrounding blanks removed
ShapeHHMM(t) == Len(t) = 5 /\ IsHHMM(t, 1)
ShapeHHMMSS(t) ==
    /\ Len(t) = 8 /\ IsHHMM(t, 1)
    /\ t[6] = ":" /\ IsDigit(t[7]) /\ IsDigit(t[8])
ShapeNullMM(t) ==
    /\ Len(t) = 7 /\ LowerSeq(SubSeq(t, 1, 5)) = <<"n", "u", "l", "l", ":">>
    /\ IsDigit(t[6]) /\ IsDigit(t[7])

\* C20: _iso_dt(d, t) is None when the date is missing; otherwise it is the
\* date with a time HH:MM:SS: t with ":00" appended when t is HH:MM, t when t
\* is HH:MM:SS, 00:MM:00 when t is "null:MM", and 00:00:00 when t is absent,
\* "null" or of any other shape.
C20_IsoDt ==
    Applied("_iso_dt") =>
        /\ req.args[1] = 0 => res.value = NoTs
        /\ req.args[1] # 0 =>
            /\ res.value.date = req.args[1]
            /\ ShapeHHMMSS(res.value.time)
            /\ ShapeHHMM(Strip(req.args[2]))
                => res.value.time = Strip(req.args[2]) \o <<":", "0", "0">>
            /\ ShapeHHMMSS(Strip(req.args[2])) => res.value.time = Strip(req.args[2])
            /\ ShapeNullMM(Strip(req.args[2]))
                => res.value.time
                    = <<"0", "0", ":">> \o SubSeq(Strip(req.args[2]), 6, 7) \o <<":", "0", "0">>
            /\ (/\ ~ShapeHHMM(Strip(req.args[2])) /\ ~ShapeHHMMSS(Strip(req.args[2]))
                /\ ~ShapeNullMM(Strip(req.args[2])))
                => res.value.time = Midnight

\* _iso_dt("2025-06-01", "null:05") = "2025-06-01T00:05:00"
C20_Witness ==
    /\ Applied("_iso_dt") /\ req.args = <<1, TNull05>>
    /\ res.value = [date |-> 1, time |-> <<"0", "0", ":", "0", "5", ":", "0", "0">>]

----------------------------------------------------------------------------
(* The order of the orchestrator's effects, checked under Spec *)

\* the place of an endpoint in the order list, price graph, quote fallback
EndpointRank(ep) == CASE ep = "list" -> 1 [] ep = "graph" -> 2 [] OTHER -> 3

\* the calls cs are a list call, then at most one price-graph call, then at
\* most one quote-fallback call, and nothing after a failed list call
LinearCalls(cs) ==
    /\ cs # <<>> /\ cs[1].ep = "list"
    /\ \A i, j \in 1..Len(cs) : i < j => EndpointRank(cs[i].ep) < EndpointRank(cs[j].ep)
    /\ cs[1].outcome # "ok" => Len(cs) = 1

\* c2 is c1 with the entry of key set to a value of that payload, nothing else
StoredOnly(c1, c2, key, payload) ==
    /\ DOMAIN c2 = DOMAIN c1 \cup {key}
    /\ c2[key].value.payload = payload
    /\ \A k \in DOMAIN c1 \ {key} : c2[k] = c1[k]

\* C21: with the API key set, a call of search_flights that hits the response
\* cache returns with no upstream call and no cache written; one that does not
\* makes one list call, then at most one price-graph call, then at most one
\* quote-fallback call, none of them twice, and writes the response cache, if
\* at all, with the result it returns, which holds what those calls gave.
C21_LinearOrchestrator ==
    [][(nreq' = nreq + 1 /\ req'.via = "provider" /\ settings.apiKey)
        => IF /\ ~req'.params.bypassCache
              /\ ~IsNone(CacheGet(respCache, _cache_key(req'.params), clock))
           THEN /\ calls' = <<>> /\ res'.kind = "result"
                /\ respCache' = respCache /\ curveCache' = curveCache
                /\ viewCache' = viewCache
           ELSE /\ LinearCalls(calls')
                /\ respCache' # respCache
                    => /\ res'.kind = "result"
                       /\ StoredOnly(respCache, respCache', _cache_key(req'.params),
                                     res'.result)]_vars

\* a miss that called the three endpoints in turn and stored what the last of
\* them gave
C21_Witness ==
    /\ req.via = "provider" /\ res.kind = "result"
    /\ Len(calls) = 3 /\ calls[3].ep = "everywhere"
    /\ res.result.meta.priceHistorySource = "search_everywhere"
    /\ _cache_key(req.params) \in DOMAIN respCache
    /\ respCache[_cache_key(req.params)].value.payload = res.result

----------------------------------------------------------------------------
(* The curve of the offers, checked under SpecOffers, where neither the price *)
(* graph nor the quote fallback answers                                       *)

\* the depart dates of the offers that have one
DepartDates(offers) == {_offer_depart_date(offers[i]) : i \in 1..Len(offers)} \ {0}

\* the curve L has one point for each depart date of the offers, priced at the
\* lowest total of the offers departing that date, in ascending date order
IsCurveOf(L, offers) ==
    /\ \A i, j \in 1..Len(L) : i < j => L[i].date < L[j].date
    /\ {L[i].date : i \in 1..Len(L)} = DepartDates(offers)
    /\ \A i \in 1..Len(L) :
        /\ \E k \in 1..Len(offers) :
            _offer_depart_date(offers[k]) = L[i].date /\ offers[k].price.total = L[i].price
        /\ \A k \in 1..Len(offers) :
            _offer_depart_date(offers[k]) = L[i].date => L[i].price <= offers[k].price.total

\* C22: the curve of the offers is the curve of the deduped, filtered offers
\* before the limit: one point for each of their depart dates, the lowest total
\* of that date, dates ascending, whatever the limit.  It is the price history
\* of the result as soon as those offers depart on two dates.
C22_OfferCurvePreLimit ==
    Computed =>
        /\ Cardinality(DepartDates(DedupedOffers)) >= 2
            => res.result.meta.priceHistorySource = "offers"
        /\ res.result.meta.priceHistorySource = "offers"
            => IsCurveOf(res.result.meta.priceHistory, DedupedOffers)

\* one offer returned under a limit of 1, with the curve of three offers on
\* two dates, two of them on the same date at different prices
C22_Witness ==
    /\ Computed
    /\ Len(res.result.offers) = 1 /\ Len(DedupedOffers) = 3
    /\ Len(res.result.meta.priceHistory) = 2
    /\ res.result.meta.priceHistorySource = "offers"
    /\ \E i, j \in 1..3 :
        /\ _offer_depart_date(DedupedOffers[i]) = _offer_depart_date(DedupedOffers[j])
        /\ DedupedOffers[i].price.total < DedupedOffers[j].price.total

----------------------------------------------------------------------------
(* The quote fallback, checked under Spec *)

\* the last request called the endpoint
HasCall(ep) == \E i \in 1..Len(calls) : calls[i].ep = ep

\* C23: search_flights calls the quote fallback only when the price graph gave
\* no series (no curve was cached, and the price-graph call failed or listed no
\* point) and the offers gave none either (they depart on less than two dates);
\* a result whose price history comes from the price graph or from the offers
\* was computed without a quote-fallback call, and the source is
\* search_everywhere only after such a call.
C23_FallbackOnlyWhenEmpty ==
    req.via = "provider" =>
        /\ HasCall("everywhere")
            => /\ HasCall("graph")
               /\ Fetched("graph") = {} \/ GraphPoints = {}
               /\ Cardinality(DepartDates(DedupedOffers)) < 2
        /\ (res.kind = "result" /\ calls # <<>>)
            => /\ res.result.meta.priceHistorySource \in {"google_price_graph", "offers"}
                    => ~HasCall("everywhere")
               /\ res.result.meta.priceHistorySource = "search_everywhere"
                    => HasCall("everywhere")

\* a price graph that answered without a usable point, one offer, and the
\* quote fallback called and used
C23_Witness ==
    /\ Returned /\ HasCall("everywhere")
    /\ res.result.meta.priceHistorySource = "search_everywhere"
    /\ Len(DedupedOffers) = 1

\* the fallback left alone: a price graph that gave a series
C23_WitnessNoCall ==
    /\ Returned /\ Fetched("graph") # {} /\ ~HasCall("everywhere")
    /\ res.result.meta.priceHistorySource = "google_price_graph"

\* the record of the upstream list an offer was normalized from
RawOfOffer(o) ==
    {req.raw_offers[i] : i \in {j \in 1..Len(req.raw_offers) :
                                    _short_offer_id(req.raw_offers[j], j - 1) = o.id}}

\* the sum of the durations the vendor gives for a record's segments, a missing
\* or non-numeric one counting 0
SegmentsDuration(raw) ==
    _compute_duration_minutes([i \in 1..Len(RawSegments(raw)) |->
        [durationMinutes |-> IF IsNone(RawSegments(raw)[i].durationMinutes) THEN 0
                             ELSE Val(RawSegments(raw)[i].durationMinutes)]])

\* C24: the durationMinutes of every returned offer is the duration the vendor
\* gives for the whole raw record when the record carries one, and the sum of
\* its segments' durations otherwise.
C24_DurationPrefersVendor ==
    Computed =>
        \A i \in 1..Len(res.result.offers) :
            \A raw \in RawOfOffer(res.result.offers[i]) :
                res.result.offers[i].durationMinutes =
                    IF IsNone(raw.durationMinutes) THEN SegmentsDuration(raw)
                    ELSE Val(raw.durationMinutes)

\* a returned offer whose record carries a vendor duration that differs from
\* the sum of its segments', and whose durationMinutes is that sum
C24_VendorDurationIgnored ==
    /\ Computed
    /\ \E i \in 1..Len(res.result.offers) :
        \E raw \in RawOfOffer(res.result.offers[i]) :
            /\ ~IsNone(raw.durationMinutes)
            /\ Val(raw.durationMinutes) # SegmentsDuration(raw)
            /\ res.result.offers[i].durationMinutes = SegmentsDuration(raw)

\* the points of a stored or returned series
PointsOf(series) == {<<series[i].date, series[i].price>> : i \in 1..Len(series)}
\* the lowest price of each date among the points pts
CheapestPerDate(pts) ==
    {<<d, SetMin({q[2] : q \in {x \in pts : x[1] = d}})>> : d \in {pt[1] : pt \in pts}}
GraphCalls(cs) == {i \in 1..Len(cs) : cs[i].ep = "graph"}

\* a call of search_flights that got its offers, over the curve cache: held is
\* what the cache holds for the search's curve key when it is read, and
\* cached_at the time the entry written by this call is expected to carry
CurveCacheRule(cached_at) ==
    (nreq' = nreq + 1 /\ Computed') =>
        LET key == _google_curve_cache_key(req'.params)
            held == CacheGet(curveCache, key, clock')
            meta == res'.result.meta
        IN  IF ~IsNone(held)
            THEN /\ Val(held).data # <<>>
                 /\ GraphCalls(calls') = {}
                 /\ curveCache' = curveCache
                 /\ \/ meta.priceHistorySource = "offers"
                    \/ /\ meta.priceHistorySource = "google_price_graph"
                       /\ meta.priceHistory = Val(held).data
            ELSE /\ Cardinality(GraphCalls(calls')) = 1
                 /\ IF Fetched("graph")' # {} /\ GraphPoints' # {}
                    THEN /\ DOMAIN curveCache' = DOMAIN curveCache \cup {key}
                         /\ \A k \in DOMAIN curveCache \ {key} : curveCache'[k] = curveCache[k]
                         /\ PointsOf(curveCache'[key].value.data) = CheapestPerDate(GraphPoints')
                         /\ curveCache'[key].value.cached_at = cached_at
                         /\ curveCache'[key].expires = clock' + 15 * 60 * TicksPerSecond
                    ELSE curveCache' = curveCache

\* C25: a call of search_flights that finds a series under its curve key makes
\* no price-graph call, leaves the curve cache as it is and takes the series as
\* the price graph's; one that finds none makes one price-graph call and, only
\* when the call gave a non-empty series, stores it under the key with the
\* time of the write and a 15-minute expiry; both whatever bypassCache says and
\* whatever the response cache holds.
C25_CurveCache == [][CurveCacheRule(clock')]_vars

\* the same with the stored time being the time the storing call started
C25_CurveCacheStampedAtStart == [][CurveCacheRule(clock)]_vars

\* a call with bypassCache set answered from a curve stored by an earlier call
C25_CurveReused ==
    /\ Computed /\ req.params.bypassCache /\ nreq = 2
    /\ GraphCalls(calls) = {}
    /\ res.result.meta.priceHistorySource = "google_price_graph"
    /\ res.result.meta.cacheAgeSeconds # None

\* C26: when a POST computed its answer from the upstream list, the same POST
\* arriving more than 300 s after the end of that request calls the list
\* endpoint again.
C26_FreshAfterResponseTtl ==
    [][(/\ nreq' = nreq + 1 /\ req'.via = "view"
        /\ req.via = "view" /\ req'.params = req.params
        /\ res.kind = "response" /\ res.status = 200 /\ ~NoListCall
        /\ clock - EndOfRequest > RESPONSE_CACHE_TTL * TicksPerSecond)
            => calls' # <<>> /\ calls'[1].ep = "list"]_vars

\* the same POST answered with no upstream call more than 300 s after the end
\* of the request that computed the answer, which the response cache no longer
\* holds
C26_StaleAnswer ==
    /\ req.via = "view" /\ nreq = 2 /\ calls = <<>>
    /\ res.kind = "response" /\ res.status = 200
    /\ \A k \in DOMAIN respCache : respCache[k].expires <= req.now
    /\ \E k \in DOMAIN viewCache :
        /\ viewCache[k].value = res.result
        /\ req.now - (viewCache[k].expires - VIEW_CACHE_TTL * TicksPerSecond)
                > RESPONSE_CACHE_TTL * TicksPerSecond

\* the last request made a list call that failed, or found no API key
ListFailed ==
    /\ calls # <<>> /\ calls[1].ep = "list"
    /\ (calls[1].outcome # "ok" \/ ~calls[1].payloadStatus)
MissingCredential ==
    /\ ~settings.apiKey /\ get_flight_provider(settings) = 0
    /\ calls = <<>> /\ res.status = MissingKeyCode
FailedSearch == nreq > 0 /\ (ListFailed \/ MissingCredential)

\* C27: a search, through the view or the provider, whose list call fails or
\* that finds no API key leaves the view cache, the response cache and the
\* curve cache as they were; the same request made next is not answered from a
\* cache: it calls the list endpoint (it fails again on the missing key).
C27_FailureLeavesCaches ==
    [][/\ (nreq' = nreq + 1 /\ FailedSearch')
            => (viewCache' = viewCache /\ respCache' = respCache
                    /\ curveCache' = curveCache)
       /\ (/\ nreq' = nreq + 1 /\ FailedSearch
           /\ req'.via = req.via /\ req'.params = req.params)
            => IF ListFailed THEN calls' # <<>> /\ calls'[1].ep = "list"
               ELSE MissingCredential']_vars

\* a search with bypassCache whose list call failed, the result an earlier
\* search stored under its key still in the response cache
C27_Witness ==
    /\ nreq = 2 /\ req.via = "provider" /\ req.params.bypassCache /\ ListFailed
    /\ _cache_key(req.params) \in DOMAIN respCache
    /\ respCache[_cache_key(req.params)].value.payload.offers # <<>>
    /\ curveCache # EmptyCache

\* C28: in every result of search_flights, computed or read from the response
\* cache, and in every result the view serves, priceHistorySource is one of
\* google_price_graph, offers, search_everywhere, none; it is none exactly when
\* priceHistory is empty; priceHistoryFilterAware is true exactly when it is
\* offers; priceHistoryPoints is the length of priceHistory.
C28_PriceHistoryFlagsAgree ==
    Served =>
        LET meta == res.result.meta
        IN  /\ meta.priceHistorySource
                    \in {"google_price_graph", "offers", "search_everywhere", "none"}
            /\ (meta.priceHistorySource = "none") <=> (meta.priceHistory = <<>>)
            /\ meta.priceHistoryFilterAware <=> (meta.priceHistorySource = "offers")
            /\ meta.priceHistoryPoints = Len(meta.priceHistory)

\* the quote fallback answered without a usable quote after the price graph
\* gave nothing: a computed result with no price history and the source none
C28_Witness ==
    /\ Computed /\ Fetched("everywhere") # {}
    /\ res.result.meta.priceHistory = <<>>
    /\ res.result.meta.priceHistorySource = "none"
    /\ res.result.offers # <<>>

\* a computed result whose price history is the curve of the offers
C28_WitnessOffers ==
    /\ Computed /\ res.result.meta.priceHistoryFilterAware
    /\ res.result.meta.priceHistoryPoints = 2


----------------------------------------------------------------------------
(* The response cache and the filters: searches that give their filters under *)
(* either of their names, and time passing between them                       *)

OneStopFlight == RawOffer(16, PNum(1), <<"BA", "BA">>, 1)
FilterParams ==
    {BaseParams,
     [BaseParams EXCEPT !.maxStops = Some(0)],
     [BaseParams EXCEPT !.max_stops = Some(0)],
     [BaseParams EXCEPT !.allowedAirlines = Some(<<"AF">>)],
     [BaseParams EXCEPT !.allowed_airlines = Some(<<"af">>)],
     [BaseParams EXCEPT !.maxStops = Some(1), !.max_stops = Some(0)]}
FilterUpstream ==
    {[list |-> ListOk(l), graph |-> GraphDown, everywhere |-> EverywhereDown] :
        l \in {<<OneStopFlight, DirectFlight>>, <<DirectFlight>>}}

FiltersInit == InitWith({[apiKey |-> TRUE, provider |-> NoneStr]})
FiltersNext ==
    \/ SearchFlights(FilterParams, FilterUpstream)
    \/ Tick
SpecFilters == FiltersInit /\ [][FiltersNext]_vars

\* an offer meets the filters a request asks for, under either name
OfferMeetsFilters(o, params) ==
    /\ AsksMaxStops(params) => o.stops <= AskedMaxStops(params)
    /\ AsksAirlines(params) =>
        \A i \in 1..Len(o.segments) : o.segments[i].airline \in AskedAirlines(params)

\* C29: every offer of a result read from the response cache meets the
\* effective maxStops and allowedAirlines of the request it is served to,
\* whether the filter is given as maxStops or max_stops, as allowedAirlines or
\* allowed_airlines.
C29_CacheHitsMeetFilters ==
    (Returned /\ calls = <<>>) =>
        \A i \in 1..Len(res.result.offers) :
            OfferMeetsFilters(res.result.offers[i], req.params)

\* the same for the requests that give their filters as maxStops and
\* allowedAirlines only
C29_CacheHitsMeetNamedFilters ==
    (Returned /\ calls = <<>> /\ IsNone(req.params.max_stops)
        /\ IsNone(req.params.allowed_airlines)) =>
        \A i \in 1..Len(res.result.offers) :
            OfferMeetsFilters(res.result.offers[i], req.params)

\* a search asking max_stops = 0 answered from the response cache with the
\* one-stop offer an unfiltered search stored
C29_AliasSharesEntry ==
    /\ Returned /\ calls = <<>>
    /\ req.params.max_stops = Some(0) /\ IsNone(req.params.maxStops)
    /\ \E i \in 1..Len(res.result.offers) : res.result.offers[i].stops = 1

\* a search asking maxStops = 0 answered from the response cache
C29_NamedFilterHit ==
    /\ Returned /\ calls = <<>>
    /\ req.params.maxStops = Some(0)
    /\ res.result.offers # <<>>


----------------------------------------------------------------------------
(* The price of an offer: one search over lists of records that give their *)
(* price in each of the shapes the vendor uses                             *)

\* price: 1;  price: "$1.5";  pricing: {price: 2};  price: {amount: 2};
\* price: {formatted: "$1.5"}
PriceShapes ==
    {<<PNum(1), PNone>>, <<PStr(<<"$", "1", ".", "5">>), PNone>>, <<PNone, PNum(MaxPrice)>>,
     <<PObjOf(MaxPrice, <<>>), PNone>>, <<PObjOf(0, <<"$", "1", ".", "5">>), PNone>>}
PriceRecords ==
    {[RawOffer(0, sh[1], <<"AF">>, 1) EXCEPT !.pricing = sh[2]] : sh \in PriceShapes}
PriceParams ==
    {[BaseParams EXCEPT !.sort = s] :
        s \in {NoneStr, "cheapest", "shortest", "least_stops", "as_listed"}}
PriceUpstream ==
    {[list |-> ListOk(l), graph |-> GraphDown, everywhere |-> EverywhereDown] :
        l \in BoundedSeqs(PriceRecords, MaxOffers)}

PricesNext == nreq = 0 /\ SearchFlights(PriceParams, PriceUpstream)
SpecPrices == OffersInit /\ [][PricesNext]_vars

\* the price a raw record gives: its price when that is a number or a text, the
\* amount, else the formatted text, of its price when that is an object, else
\* the price under pricing
StatedPrice(raw) ==
    CASE raw.price.kind = "num" /\ raw.price.num # 0 -> raw.price.num
      [] raw.price.kind = "str" /\ raw.price.str # <<>> -> _parse_price(raw.price).v
      [] raw.price.kind = "obj" ->
            IF raw.price.amount # 0 THEN raw.price.amount
            ELSE _parse_price(PStr(raw.price.formatted)).v
      [] OTHER -> _parse_price(raw.pricing).v

\* C30: the price.total of every returned offer is the parsed price of its raw
\* record, in each shape a record gives it: a number or a numeric text in
\* price, a value under pricing.price, or an object in price that carries an
\* amount or a formatted text; an offer of a record whose price is an object
\* with a positive amount has no price.total of 0.
C30_PriceOfEveryShape ==
    Computed =>
        \A i \in 1..Len(res.result.offers) :
            \A raw \in RawOfOffer(res.result.offers[i]) :
                /\ res.result.offers[i].price.total = StatedPrice(raw)
                /\ (raw.price.kind = "obj" /\ raw.price.amount > 0)
                        => res.result.offers[i].price.total # 0

\* the same for the records whose price is no object
C30_PriceOfFlatShapes ==
    Computed =>
        \A i \in 1..Len(res.result.offers) :
            \A raw \in RawOfOffer(res.result.offers[i]) :
                raw.price.kind # "obj" => res.result.offers[i].price.total = StatedPrice(raw)

\* a returned offer with price.total = 0 of a record whose price is an object
\* with a positive amount
C30_NestedAmountLost ==
    /\ Computed
    /\ \E i \in 1..Len(res.result.offers) :
        \E raw \in RawOfOffer(res.result.offers[i]) :
            /\ raw.price.kind = "obj" /\ raw.price.amount > 0
            /\ res.result.offers[i].price.total = 0

\* returned offers priced from a text and from pricing.price
C30_FlatShapesPriced ==
    /\ Computed /\ Len(res.result.offers) = 2
    /\ \E i, j \in 1..2 :
        /\ res.result.offers[i].price.total = MaxPrice * PriceScale
        /\ res.result.offers[j].price.total = PriceScale + 50
        /\ \E raw \in RawOfOffer(res.result.offers[i]) : raw.price.kind = "none"
        /\ \E raw \in RawOfOffer(res.result.offers[j]) : raw.price.kind = "str"

====
